---- MODULE Spec2Model ----
(***************************************************************************)
(* Layout-to-grid reconstruction engine of the maintenance-schedule        *)
(* extractor: the grid builder of map_services_intersection_based, the     *)
(* two ways the oil and inspection grids are combined (merge_services of   *)
(* step2_extract_pdf.py and main() of TreatmentExtractorFromPDF.py), and   *)
(* the row-band resolver (find_background_boundary_v3 and                  *)
(* calculate_checkbox_y_ranges), the column classifier                     *)
(* (find_model_column_x_positions and the column set-up of                 *)
(* map_services_intersection_based), the row text assembler                *)
(* (extract_checkboxes_with_y_ranges, clean_with_category_logic) and the   *)
(* intersection resolver (check_gray_bullet_at_intersection); and, around   *)
(* the engine, the VIN pipeline (TreatmentWizard.run_pipeline of main.py)  *)
(* with its cached step outputs, and the web front end's VINProcessing row *)
(* with the tasks that update it (vin_processor).                          *)
(*                                                                         *)
(* Text is modelled as sequences of one-character strings so that          *)
(* Python's substring test "marker in header" is computed, not assumed.    *)
(***************************************************************************)
EXTENDS Integers, Sequences, FiniteSets, TLC

VARIABLES
    program,            \* entry point run: "step2" (extract_treatments_from_pdfs) or "main"
    pc,                 \* position of the run: which document / stage
    service_cols,       \* service column X -> header text of the page layout
    x_to_service,       \* service column X -> service key, for the matched headers
    final_mapping,      \* grid being built for the current document
    rows_left,          \* rows that may still be fed (model bound)
    oil_mapping,        \* result of map_services_intersection_based(oil)
    insp_mapping,       \* result of map_services_intersection_based(inspection)
    output_data,        \* return value of extract_treatments_from_pdfs
    ordered_mapping,    \* ordered_mapping written by main()
    text_data,          \* items of one document (single-document runs)
    idx,                \* number of items of text_data consumed in this pass
    pass,               \* 1: first processing, 2: reprocessing the same rows
    first_result,       \* grid after the first pass
    img,                \* the raster column through the checkboxes, as colour runs
    checkboxes,         \* checkbox centres of the page, in the widgets' order
    cb_i,               \* checkboxes whose band has been computed
    checkbox_ranges,    \* checkbox_ranges of calculate_checkbox_y_ranges
    band_pc,            \* "ranges", "done", or "IndexError" once a scan raised
    page_headers,       \* header X -> the phrase printed above the anchor there
    widgets_x,          \* cb_x of the checkbox widgets below the anchor, all pages
    all_text,           \* spans of the first page: text, x, y
    service_x_positions, \* service_x_list of map_services_intersection_based
    final_x_positions,  \* model_x_positions returned by find_model_column_x_positions
    col_pc,             \* position inside map_services_intersection_based
    words,              \* words of the page right of and below the anchor
    word_i,             \* words assigned to a checkbox so far
    words_by_checkbox,  \* checkbox_id -> words, in order of first assignment
    all_items,          \* all_items of extract_checkboxes_with_y_ranges
    text_pc,            \* position inside extract_checkboxes_with_y_ranges
    pix_img,            \* non-white pixels of the rendered page: [px, py, rgb]
    pix_xy,             \* the (model X, row Y) intersection, in PDF units
    bullet_found,         \* result of check_gray_bullet_at_intersection
    pix_pc,             \* "check" before the call, "done" after
    model_names,        \* model_cols of map_services_intersection_based: X -> name
    unreadable,         \* documents whose processing raised an exception
    scan_image,         \* raster column of one boundary scan, as colour runs
    scan_start,         \* pixel_y, the raster row the scan starts from
    scan_dir,           \* direction of the scan: "up" or "down"
    scan_stage,         \* stage of find_background_boundary_v3
    scan_py,            \* py of the loop of find_background_boundary_v3
    scan_pc,            \* "scanning", "pixel" (boundary returned), "none", "IndexError"
    trim_words,         \* words of the text given to clean_with_category_logic
    trim_once,          \* its result
    trim_twice,         \* the result of cleaning the result again
    trim_pc,            \* "input", "cleaned", "again"
    classified_data,    \* classified services: header -> model names of its items
    disk,               \* step outputs cached below the model directory: file -> content
    force,              \* the force flag of run_pipeline
    pipe_pc,            \* position inside run_pipeline
    service_lines_data, \* service_lines_data of run_pipeline
    baskets_data_map,   \* baskets_data_map of run_pipeline
    first_run,          \* what the previous run processed
    vin_row,            \* the VINProcessing row of one VIN in the database
    tasks               \* queued and running process_vin_task invocations

gridVars == <<program, pc, service_cols, x_to_service, final_mapping, rows_left, oil_mapping,
              insp_mapping, output_data, ordered_mapping, text_data, idx,
              pass, first_result>>

bandVars == <<img, checkboxes, cb_i, checkbox_ranges, band_pc>>

colVars == <<page_headers, widgets_x, all_text, service_x_positions, final_x_positions, col_pc,
             model_names>>

textVars == <<words, word_i, words_by_checkbox, all_items, text_pc>>

pixVars == <<pix_img, pix_xy, bullet_found, pix_pc>>

fileVars == <<unreadable>>

scanVars == <<scan_image, scan_start, scan_dir, scan_stage, scan_py, scan_pc>>

trimVars == <<trim_words, trim_once, trim_twice, trim_pc>>

pipeVars == <<classified_data, disk, force, pipe_pc, service_lines_data, baskets_data_map,
              first_run>>

webVars == <<vin_row, tasks>>

runVars == <<fileVars, scanVars, trimVars, pipeVars, webVars>>

pageVars == <<colVars, textVars, pixVars, runVars>>

vars == <<gridVars, bandVars, pageVars>>

\* no column classification is running
NoCols ==
    /\ page_headers = <<>>
    /\ widgets_x = <<>>
    /\ all_text = <<>>
    /\ service_x_positions = <<>>
    /\ final_x_positions = <<>>
    /\ col_pc = "idle"
    /\ model_names = <<>>

\* no row text is being assembled
NoText ==
    /\ words = <<>>
    /\ word_i = 0
    /\ words_by_checkbox = <<>>
    /\ all_items = <<>>
    /\ text_pc = "idle"

\* no intersection is being looked at
NoPix ==
    /\ pix_img = {}
    /\ pix_xy = <<0, 0>>
    /\ bullet_found = FALSE
    /\ pix_pc = "idle"

\* no document raised
NoFiles == unreadable = {}

\* no single boundary scan is running
NoScan ==
    /\ scan_image = <<>>
    /\ scan_start = 0
    /\ scan_dir = "up"
    /\ scan_stage = 0
    /\ scan_py = 0
    /\ scan_pc = "idle"

\* no text is being cleaned
NoTrim ==
    /\ trim_words = <<>>
    /\ trim_once = <<>>
    /\ trim_twice = <<>>
    /\ trim_pc = "idle"

\* run_pipeline is not running
NoPipe ==
    /\ classified_data = <<>>
    /\ disk = <<>>
    /\ force = FALSE
    /\ pipe_pc = "idle"
    /\ service_lines_data = <<>>
    /\ baskets_data_map = <<>>
    /\ first_run = <<>>

\* the web application is not running
NoWeb ==
    /\ vin_row = <<>>
    /\ tasks = <<>>

NoRun == NoFiles /\ NoScan /\ NoTrim /\ NoPipe /\ NoWeb

----------------------------------------------------------------------------
(* Bounds of the model *)

\* rows fed to the grid builder over the documents of one model directory
MaxRows == 3

\* items in the text_data of a document that is processed twice
MaxItems == 2

\* colour runs that make up a generated raster column
MaxSegs == 3

\* checkboxes on a generated page
MaxBoxes == 2

----------------------------------------------------------------------------
(* Text constants *)

M240tkm == <<"2", "4", "0", " ", "t", "k", "m">>
M160tmls == <<"1", "6", "0", " ", "t", "m", "l", "s">>
M180tkm == <<"1", "8", "0", " ", "t", "k", "m">>
M120tmls == <<"1", "2", "0", " ", "t", "m", "l", "s">>
M120tkm == <<"1", "2", "0", " ", "t", "k", "m">>
M80tmls == <<"8", "0", " ", "t", "m", "l", "s">>
M90tkm == <<"9", "0", " ", "t", "k", "m">>
M60tmls == <<"6", "0", " ", "t", "m", "l", "s">>
M60tkm == <<"6", "0", " ", "t", "k", "m">>
M40tmls == <<"4", "0", " ", "t", "m", "l", "s">>
M45tkm == <<"4", "5", " ", "t", "k", "m">>
M30tmls == <<"3", "0", " ", "t", "m", "l", "s">>
M30tkm == <<"3", "0", " ", "t", "k", "m">>
M20tmls == <<"2", "0", " ", "t", "m", "l", "s">>
M15tkm == <<"1", "5", " ", "t", "k", "m">>
M10tmls == <<"1", "0", " ", "t", "m", "l", "s">>
MTimeDependent == <<"T", "i", "m", "e", "-", "d", "e", "p", "e", "n", "d", "e", "n", "t">>
MTimeDependentLower == <<"t", "i", "m", "e", "-", "d", "e", "p", "e", "n", "d", "e", "n", "t">>

\* "Every 15 tkm/10 tmls or 1 year"
Hdr15 == <<"E", "v", "e", "r", "y", " ", "1", "5", " ", "t", "k", "m", "/", "1", "0", " ", "t", "m", "l", "s", " ", "o", "r", " ", "1", " ", "y", "e", "a", "r">>
\* "Every 240 tkm/160 tmls"
Hdr240 == <<"E", "v", "e", "r", "y", " ", "2", "4", "0", " ", "t", "k", "m", "/", "1", "6", "0", " ", "t", "m", "l", "s">>
\* "TIME-DEPENDENT work"
HdrTime == <<"T", "I", "M", "E", "-", "D", "E", "P", "E", "N", "D", "E", "N", "T", " ", "w", "o", "r", "k">>
\* "Remarks"
HdrRemarks == <<"R", "e", "m", "a", "r", "k", "s">>

UpperToLower ==
    [c \in {"A","B","C","D","E","F","G","H","I","J","K","L","M","N","O","P",
            "Q","R","S","T","U","V","W","X","Y","Z"} |->
        CASE c = "A" -> "a" [] c = "B" -> "b" [] c = "C" -> "c" [] c = "D" -> "d"
          [] c = "E" -> "e" [] c = "F" -> "f" [] c = "G" -> "g" [] c = "H" -> "h"
          [] c = "I" -> "i" [] c = "J" -> "j" [] c = "K" -> "k" [] c = "L" -> "l"
          [] c = "M" -> "m" [] c = "N" -> "n" [] c = "O" -> "o" [] c = "P" -> "p"
          [] c = "Q" -> "q" [] c = "R" -> "r" [] c = "S" -> "s" [] c = "T" -> "t"
          [] c = "U" -> "u" [] c = "V" -> "v" [] c = "W" -> "w" [] c = "X" -> "x"
          [] c = "Y" -> "y" [] c = "Z" -> "z"]

\* str.lower()
Lower(s) == [i \in DOMAIN s |-> IF s[i] \in DOMAIN UpperToLower THEN UpperToLower[s[i]] ELSE s[i]]

\* Python's "sub in s" on strings
Contains(s, sub) ==
    \E i \in 1..(Len(s) - Len(sub) + 1) : SubSeq(s, i, i + Len(sub) - 1) = sub

----------------------------------------------------------------------------
(* Grid builder: map_services_intersection_based *)

None == "None"

SERVICE_ORDER ==
    << "service_15000", "service_30000", "service_45000", "service_60000",
       "service_90000", "service_120000", "service_180000", "service_240000",
       "service_time_dependent" >>

\* (mutant) the markers are tried from the shortest interval up
ServiceKeyOfAscending(header_text) ==
    IF Contains(header_text, M15tkm) \/ Contains(header_text, M10tmls) THEN "service_15000"
    ELSE IF Contains(header_text, M30tkm) \/ Contains(header_text, M20tmls) THEN "service_30000"
    ELSE IF Contains(header_text, M45tkm) \/ Contains(header_text, M30tmls) THEN "service_45000"
    ELSE IF Contains(header_text, M60tkm) \/ Contains(header_text, M40tmls) THEN "service_60000"
    ELSE IF Contains(header_text, M90tkm) \/ Contains(header_text, M60tmls) THEN "service_90000"
    ELSE IF Contains(header_text, M120tkm) \/ Contains(header_text, M80tmls) THEN "service_120000"
    ELSE IF Contains(header_text, M180tkm) \/ Contains(header_text, M120tmls) THEN "service_180000"
    ELSE IF Contains(header_text, M240tkm) \/ Contains(header_text, M160tmls) THEN "service_240000"
    ELSE IF Contains(header_text, MTimeDependent)
            \/ Contains(Lower(header_text), MTimeDependentLower) THEN "service_time_dependent"
    ELSE None

\* the elif chain that turns a column header into a service key
ServiceKeyOf(header_text) ==
    IF Contains(header_text, M240tkm) \/ Contains(header_text, M160tmls) THEN "service_240000"
    ELSE IF Contains(header_text, M180tkm) \/ Contains(header_text, M120tmls) THEN "service_180000"
    ELSE IF Contains(header_text, M120tkm) \/ Contains(header_text, M80tmls) THEN "service_120000"
    ELSE IF Contains(header_text, M90tkm) \/ Contains(header_text, M60tmls) THEN "service_90000"
    ELSE IF Contains(header_text, M60tkm) \/ Contains(header_text, M40tmls) THEN "service_60000"
    ELSE IF Contains(header_text, M45tkm) \/ Contains(header_text, M30tmls) THEN "service_45000"
    ELSE IF Contains(header_text, M30tkm) \/ Contains(header_text, M20tmls) THEN "service_30000"
    ELSE IF Contains(header_text, M15tkm) \/ Contains(header_text, M10tmls) THEN "service_15000"
    ELSE IF Contains(header_text, MTimeDependent)
            \/ Contains(Lower(header_text), MTimeDependentLower) THEN "service_time_dependent"
    ELSE None

\* the dict x_to_service built from service_cols: only matched headers get a key
XToService(cols) ==
    [sx \in {x \in DOMAIN cols : ServiceKeyOf(cols[x]) # None} |-> ServiceKeyOf(cols[sx])]

\* (mutant) an unmatched column is labelled "unknown" and kept
XToServiceGetUnknown(x2s, sx) == IF sx \in DOMAIN x2s THEN x2s[sx] ELSE "unknown"

\* x_to_service.get(sx)
XToServiceGet(x2s, sx) == IF sx \in DOMAIN x2s THEN x2s[sx] ELSE None

Abs(n) == IF n < 0 THEN 0 - n ELSE n

\* sorted(all_checkboxes_by_x.keys())
RECURSIVE SortedSeq(_)
SortedSeq(S) ==
    IF S = {} THEN <<>>
    ELSE LET m == CHOOSE a \in S : \A b \in S : a <= b
         IN <<m>> \o SortedSeq(S \ {m})

\* min(service_x_list, key=lambda x: abs(item_x - x)): the first minimal element
ClosestSx(service_x_list, item_x) ==
    LET i == CHOOSE i \in DOMAIN service_x_list :
                /\ \A j \in DOMAIN service_x_list :
                      Abs(item_x - service_x_list[i]) <= Abs(item_x - service_x_list[j])
                /\ \A j \in 1..(i - 1) :
                      Abs(item_x - service_x_list[j]) > Abs(item_x - service_x_list[i])
    IN service_x_list[i]

\* (mutant) the nearest service column is taken whatever its distance
ServiceOfItemAnyDistance(cols, x2s, item_x) ==
    LET service_x_list == SortedSeq(DOMAIN cols)
    IN IF service_x_list = <<>> THEN None
       ELSE XToServiceGet(x2s, ClosestSx(service_x_list, item_x))

\* the service assigned to an item: nearest service column, if nearer than 20
ServiceOfItem(cols, x2s, item_x) ==
    LET service_x_list == SortedSeq(DOMAIN cols)
    IN IF service_x_list = <<>> THEN None
       ELSE LET closest_sx == ClosestSx(service_x_list, item_x)
            IN IF Abs(item_x - closest_sx) < 20
               THEN XToServiceGet(x2s, closest_sx)
               ELSE None

\* model columns of the page, as find_model_column_x_positions and
\* get_model_name_for_x return them for the first page
model_x_positions == <<340, 370>>

model_cols == (340 :> "Panamera GTS") @@ (370 :> "Panamera 4S")

\* a grid: service keys in insertion order, and per key the lists per model
EmptyItems == [k \in {} |-> [m \in {} |-> <<>>]]

EmptyGrid == [order |-> <<>>, items |-> EmptyItems]

InList(x, lst) == \E i \in DOMAIN lst : lst[i] = x

\* final_mapping[service][model_name] with the defaultdicts creating entries
Cell(fm, service, model_name) ==
    IF service \in DOMAIN fm.items /\ model_name \in DOMAIN fm.items[service]
    THEN fm.items[service][model_name]
    ELSE <<>>

SetCell(fm, service, model_name, lst) ==
    LET old == IF service \in DOMAIN fm.items THEN fm.items[service]
               ELSE [m \in {} |-> <<>>]
        new == [m \in DOMAIN old \cup {model_name} |->
                   IF m = model_name THEN lst ELSE old[m]]
    IN [order |-> IF service \in DOMAIN fm.items THEN fm.order
                  ELSE Append(fm.order, service),
        items |-> [k \in DOMAIN fm.items \cup {service} |->
                      IF k = service THEN new ELSE fm.items[k]]]

\* (mutant) the membership test dropped: every marked line is appended
AppendAlways(fm, service, model_name, text) ==
    SetCell(fm, service, model_name, Append(Cell(fm, service, model_name), text))

\* (mutant) the membership test looks at the last element only
AppendIfNotLast(fm, service, model_name, text) ==
    LET lst == Cell(fm, service, model_name)
    IN IF lst # <<>> /\ lst[Len(lst)] = text THEN fm
       ELSE SetCell(fm, service, model_name, Append(lst, text))

\* if item["text"] not in final_mapping[service][model_name]: append
AppendIfAbsent(fm, service, model_name, text) ==
    IF InList(text, Cell(fm, service, model_name))
    THEN fm
    ELSE SetCell(fm, service, model_name, Append(Cell(fm, service, model_name), text))

\* (mutant) the bullet test dropped: the line goes to every model column
RECURSIVE CheckModelsNoBullet(_, _, _, _)
CheckModelsNoBullet(fm, service, item, i) ==
    IF i > Len(model_x_positions) THEN fm
    ELSE CheckModelsNoBullet(
             AppendIfAbsent(fm, service, model_cols[model_x_positions[i]], item.text),
             service, item, i + 1)

\* the loop over model_x_positions for one item whose service is known
RECURSIVE CheckModels(_, _, _, _)
CheckModels(fm, service, item, i) ==
    IF i > Len(model_x_positions) THEN fm
    ELSE LET model_x == model_x_positions[i]
             has_bullet == model_x \in item.bullets
         IN CheckModels(IF has_bullet
                        THEN AppendIfAbsent(fm, service, model_cols[model_x], item.text)
                        ELSE fm,
                        service, item, i + 1)

\* one iteration of "for item in text_data"
MapItem(fm, cols, x2s, item) ==
    LET service == ServiceOfItem(cols, x2s, item.x)
    IN IF service = None THEN fm ELSE CheckModels(fm, service, item, 1)

\* service_to_original_header.get(service, service): the header of the last
\* column (in X order) whose key is the service; the key itself, as text the
\* model does not spell out, when there is none
OriginalHeader(cols, x2s, service) ==
    LET xs == {x \in DOMAIN cols : XToServiceGet(x2s, x) = service}
    IN IF xs = {} THEN <<service>>
       ELSE cols[CHOOSE x \in xs : \A y \in xs : y <= x]

\* the value map_services_intersection_based returns: per service of
\* final_mapping, in its order, {"original_header": ..., "items": ...}
MapResult(fm, cols, x2s) ==
    [order |-> fm.order,
     items |-> fm.items,
     header |-> [k \in DOMAIN fm.items |-> OriginalHeader(cols, x2s, k)]]

EmptyResult == [order |-> <<>>, items |-> EmptyItems, header |-> [k \in {} |-> <<>>]]

----------------------------------------------------------------------------
(* Combining the two documents *)

SeqToSet(s) == {s[i] : i \in DOMAIN s}

\* all orders in which the elements of a set can be listed
Perms(S) ==
    {p \in [1..Cardinality(S) -> S] : \A i, j \in DOMAIN p : i # j => p[i] # p[j]}

ModelsOf(res, k) == IF k \in DOMAIN res.items THEN DOMAIN res.items[k] ELSE {}

ListOf(res, k, m) == IF m \in ModelsOf(res, k) THEN res.items[k][m] ELSE <<>>

\* merge_services(inspection_data, maintenance_data): the set of values it
\* can return. The keys are walked in the iteration order of a Python set and
\* every list is list(set(list1 + list2)): for strings both orders vary with
\* the interpreter's hash seed, so any order is an outcome.
MergeServices(inspection_data, maintenance_data) ==
    LET all_service_keys == DOMAIN inspection_data.items \cup DOMAIN maintenance_data.items
        all_models(k) == ModelsOf(inspection_data, k) \cup ModelsOf(maintenance_data, k)
        merged_set(k, m) ==
            SeqToSet(ListOf(inspection_data, k, m) \o ListOf(maintenance_data, k, m))
        cells == {c \in all_service_keys \X SeqToSet([i \in DOMAIN model_x_positions |->
                                                      model_cols[model_x_positions[i]]]) :
                     c[2] \in all_models(c[1])}
        lists == UNION {Perms(merged_set(c[1], c[2])) : c \in cells}
        picks == {f \in [cells -> lists] : \A c \in cells : f[c] \in Perms(merged_set(c[1], c[2]))}
        original_header(k) ==
            IF k \in DOMAIN inspection_data.items THEN inspection_data.header[k]
            ELSE maintenance_data.header[k]
    IN {[order |-> o,
         items |-> [k \in all_service_keys |-> [m \in all_models(k) |-> f[<<k, m>>]]],
         header |-> [k \in all_service_keys |-> original_header(k)]] :
            o \in Perms(all_service_keys), f \in picks}

\* extract_from_single_pdf: None when nothing was extracted or mapped
ExtractFromSinglePdf(result) ==
    IF result.order = <<>> THEN [status |-> None, services |-> EmptyResult]
    ELSE [status |-> "ok", services |-> result]

\* extract_treatments_from_pdfs: the values it can return for the two results
ExtractTreatmentsFromPdfs(oil_result, inspection_result) ==
    LET oil_services == ExtractFromSinglePdf(oil_result)
        inspection_services == ExtractFromSinglePdf(inspection_result)
    IN IF oil_services.status = None /\ inspection_services.status = None
       THEN {[status |-> None, services |-> EmptyResult]}
       ELSE IF inspection_services.status = None
       THEN {[status |-> "ok", services |-> oil_services.services]}
       ELSE IF oil_services.status = None
       THEN {[status |-> "ok", services |-> inspection_services.services]}
       ELSE {[status |-> "ok", services |-> s] :
                s \in MergeServices(oil_services.services, inspection_services.services)}

\* dict.update: the keys of d keep their place and take the other's value,
\* the other's new keys are appended
DictUpdate(d, other) ==
    LET newkeys == SelectSeq(other.order, LAMBDA k : k \notin DOMAIN d.items)
        keys == DOMAIN d.items \cup DOMAIN other.items
    IN [order |-> d.order \o newkeys,
        items |-> [k \in keys |-> IF k \in DOMAIN other.items THEN other.items[k] ELSE d.items[k]],
        header |-> [k \in keys |-> IF k \in DOMAIN other.items THEN other.header[k] ELSE d.header[k]]]

\* main() of TreatmentExtractorFromPDF.py: update with each mapping, then
\* rebuild in SERVICE_ORDER
MainCombine(oil_result, inspection_result) ==
    LET combined_mapping == DictUpdate(DictUpdate(EmptyResult, oil_result), inspection_result)
        order == SelectSeq(SERVICE_ORDER, LAMBDA s : s \in DOMAIN combined_mapping.items)
    IN [order |-> order,
        items |-> [k \in SeqToSet(order) |-> combined_mapping.items[k]],
        header |-> [k \in SeqToSet(order) |-> combined_mapping.header[k]]]

----------------------------------------------------------------------------
(* Inputs *)

\* treatment lines that can be read off a row
Lines == {"Fill in engine oil", "Change oil filter"}

\* page layouts: service column X -> header text above it
Layouts ==
    { (400 :> HdrTime) @@ (430 :> Hdr15),
      (400 :> Hdr240) @@ (430 :> HdrRemarks) }

\* an item of text_data: its text, the X of its checkbox (a service column,
\* since both come from the same widgets) and the model columns at which
\* check_gray_bullet_at_intersection finds a bullet for its Y and page
ItemsOf(cols) ==
    [text : Lines, x : DOMAIN cols, bullets : SUBSET SeqToSet(model_x_positions)]

Pending == [status |-> "pending", services |-> EmptyResult]

----------------------------------------------------------------------------
(* Specification Spec: the two documents of a model directory *)

\* no page is being scanned
NoBand ==
    /\ img = <<>>
    /\ checkboxes = <<>>
    /\ cb_i = 0
    /\ checkbox_ranges = <<>>
    /\ band_pc = "idle"

Init ==
    /\ program \in {"step2", "main"}
    /\ pc = "oil"
    /\ service_cols \in Layouts
    /\ x_to_service = XToService(service_cols)
    /\ final_mapping = EmptyGrid
    /\ rows_left = MaxRows
    /\ oil_mapping = EmptyResult
    /\ insp_mapping = EmptyResult
    /\ output_data = Pending
    /\ ordered_mapping = Pending
    /\ text_data = <<>>
    /\ idx = 0
    /\ pass = 0
    /\ first_result = EmptyGrid
    /\ NoBand
    /\ NoCols
    /\ NoText
    /\ NoPix
    /\ NoRun

\* one item of the document's text_data goes through the mapping loop
MapRow ==
    /\ pc \in {"oil", "inspection"}
    /\ rows_left > 0
    /\ \E item \in ItemsOf(service_cols) :
          final_mapping' = MapItem(final_mapping, service_cols, x_to_service, item)
    /\ rows_left' = rows_left - 1
    /\ UNCHANGED <<program, pc, service_cols, x_to_service, oil_mapping, insp_mapping, output_data,
                   ordered_mapping, text_data, idx, pass, first_result,
                   bandVars, pageVars>>

\* map_services_intersection_based returns for the oil document
FinishOil ==
    /\ pc = "oil"
    /\ oil_mapping' = MapResult(final_mapping, service_cols, x_to_service)
    /\ final_mapping' = EmptyGrid
    /\ pc' = "inspection"
    /\ UNCHANGED <<program, service_cols, x_to_service, rows_left, insp_mapping, output_data,
                   ordered_mapping, text_data, idx, pass, first_result,
                   bandVars, pageVars>>

\* map_services_intersection_based returns for the inspection document
FinishInspection ==
    /\ pc = "inspection"
    /\ insp_mapping' = MapResult(final_mapping, service_cols, x_to_service)
    /\ final_mapping' = EmptyGrid
    /\ pc' = "combine"
    /\ UNCHANGED <<program, service_cols, x_to_service, rows_left, oil_mapping, output_data,
                   ordered_mapping, text_data, idx, pass, first_result,
                   bandVars, pageVars>>

\* step2_extract_pdf.extract_treatments_from_pdfs combines the two results
ExtractTreatments ==
    /\ program = "step2"
    /\ pc = "combine"
    /\ output_data.status = "pending"
    /\ output_data' \in ExtractTreatmentsFromPdfs(oil_mapping, insp_mapping)
    /\ UNCHANGED <<program, pc, service_cols, x_to_service, final_mapping, rows_left, oil_mapping,
                   insp_mapping, ordered_mapping, text_data, idx, pass, first_result,
                   bandVars, pageVars>>

\* TreatmentExtractorFromPDF.main combines the two results
Main ==
    /\ program = "main"
    /\ pc = "combine"
    /\ ordered_mapping.status = "pending"
    /\ ordered_mapping' = [status |-> "ok",
                           services |-> MainCombine(oil_mapping, insp_mapping)]
    /\ UNCHANGED <<program, pc, service_cols, x_to_service, final_mapping, rows_left, oil_mapping,
                   insp_mapping, output_data, text_data, idx, pass, first_result,
                   bandVars, pageVars>>

Next == MapRow \/ FinishOil \/ FinishInspection \/ ExtractTreatments \/ Main

Spec == Init /\ [][Next]_vars

----------------------------------------------------------------------------
(* Specification SpecDoc: one document whose rows are fed to the grid      *)
(* builder, and then fed to it a second time                               *)

SeqsUpTo(S, n) == UNION {[1..k -> S] : k \in 0..n}

InitDoc ==
    /\ program = "map_services"
    /\ pc = "rows"
    /\ service_cols \in Layouts
    /\ x_to_service = XToService(service_cols)
    /\ text_data \in SeqsUpTo(ItemsOf(service_cols), MaxItems)
    /\ idx = 0
    /\ pass = 1
    /\ final_mapping = EmptyGrid
    /\ first_result = EmptyGrid
    /\ rows_left = 0
    /\ oil_mapping = EmptyResult
    /\ insp_mapping = EmptyResult
    /\ output_data = Pending
    /\ ordered_mapping = Pending
    /\ NoBand
    /\ NoCols
    /\ NoText
    /\ NoPix
    /\ NoRun

\* the next item of text_data goes through the mapping loop
MapNext ==
    /\ pc = "rows"
    /\ idx < Len(text_data)
    /\ final_mapping' = MapItem(final_mapping, service_cols, x_to_service, text_data[idx + 1])
    /\ idx' = idx + 1
    /\ UNCHANGED <<program, pc, service_cols, x_to_service, rows_left, oil_mapping,
                   insp_mapping, output_data, ordered_mapping, text_data, pass,
                   first_result,
                   bandVars, pageVars>>

\* the same rows are fed again into the grid built so far
Reprocess ==
    /\ pc = "rows"
    /\ pass = 1
    /\ idx = Len(text_data)
    /\ first_result' = final_mapping
    /\ pass' = 2
    /\ idx' = 0
    /\ UNCHANGED <<program, pc, service_cols, x_to_service, final_mapping, rows_left,
                   oil_mapping, insp_mapping, output_data, ordered_mapping, text_data,
                   bandVars, pageVars>>

NextDoc == MapNext \/ Reprocess

SpecDoc == InitDoc /\ [][NextDoc]_vars

----------------------------------------------------------------------------
(* Row-band resolver: find_background_boundary_v3 and                      *)
(* calculate_checkbox_y_ranges                                             *)
(*                                                                         *)
(* A raster column is a sequence of RGB pixels; raster row py (from 0) is  *)
(* image[py + 1]. The state holds it as runs of one colour (img), which    *)
(* Expand turns into the pixel rows. PDF Y coordinates are held in quarter *)
(* units, so that a checkbox centre can fall between two raster rows. The  *)
(* raster is taken to be exactly zoom times the page:                      *)
(* img_height / page_rect.height = 2.                                      *)

Zoom == 2

ScanBudget == 150

WhiteThreshold == 240

BackgroundThreshold == 200

White == <<255, 255, 255>>

Silver == <<220, 220, 220>>

LightGray == <<210, 210, 210>>

Gray == <<180, 180, 180>>

\* (int(r) + int(g) + int(b)) // 3
RgbAvg(pixel) == (pixel[1] + pixel[2] + pixel[3]) \div 3

\* (mutant) the first pixel that is not white is taken for the background
ScanStepWithoutFrame(image, s, py) ==
    IF py >= Len(image)
    THEN [tag |-> "IndexError", stage |-> s.stage, py |-> py]
    ELSE LET rgb_avg == RgbAvg(image[py + 1])
         IN IF s.stage = 0
            THEN [tag |-> "scanning", py |-> py,
                  stage |-> IF rgb_avg < WhiteThreshold THEN 2 ELSE 0]
            ELSE IF rgb_avg < BackgroundThreshold
                 THEN [tag |-> "pixel", stage |-> 2, py |-> py]
                 ELSE [tag |-> "scanning", stage |-> 2, py |-> py]

\* one iteration of the while loop at row py, from scan state s (the stage
\* so far); reading img[py, pixel_x] past the last row raises IndexError
ScanStep(image, s, py) ==
    IF py >= Len(image)
    THEN [tag |-> "IndexError", stage |-> s.stage, py |-> py]
    ELSE LET rgb_avg == RgbAvg(image[py + 1])
         IN IF s.stage = 0
            THEN [tag |-> "scanning", py |-> py,
                  stage |-> IF rgb_avg < WhiteThreshold THEN 1 ELSE 0]
            ELSE IF s.stage = 1
            THEN [tag |-> "scanning", py |-> py,
                  stage |-> IF rgb_avg >= BackgroundThreshold THEN 2 ELSE 1]
            ELSE IF rgb_avg < BackgroundThreshold
                 THEN [tag |-> "pixel", stage |-> 2, py |-> py]
                 ELSE [tag |-> "scanning", stage |-> 2, py |-> py]

\* iterations lo..hi of the loop (iteration k reads row start + k * step),
\* run in order from scan state s; the range is halved only to keep the
\* evaluation shallow, and a break or an exception ends the loop
RECURSIVE ScanRows(_, _, _, _, _, _)
ScanRows(image, s, start, step, lo, hi) ==
    IF s.tag # "scanning" \/ lo > hi THEN s
    ELSE IF lo = hi THEN ScanStep(image, s, start + lo * step)
    ELSE LET mid == (lo + hi) \div 2
         IN CHOOSE r \in {ScanRows(image, s1, start, step, mid + 1, hi) :
                             s1 \in {ScanRows(image, s, start, step, lo, mid)}} : TRUE

Max(a, b) == IF a >= b THEN a ELSE b

Min(a, b) == IF a <= b THEN a ELSE b

\* the scan from the given stage: tag "pixel" with the boundary row in py,
\* "None" when the loop ends without a boundary, or "IndexError"
ScanFrom(image, pixel_y, direction, stage) ==
    LET end == IF direction = "up" THEN Max(0, pixel_y - ScanBudget)
               ELSE Min(Len(image), pixel_y + ScanBudget)
        step == IF direction = "up" THEN 0 - 1 ELSE 1
        iterations == IF direction = "up" THEN pixel_y - end + 1 ELSE end - pixel_y + 1
        last == ScanRows(image, [tag |-> "scanning", stage |-> stage, py |-> pixel_y],
                         pixel_y, step, 0, iterations - 1)
    IN IF last.tag = "scanning" THEN [last EXCEPT !.tag = "None"] ELSE last

\* (mutant) the scan starts as if it were already in the row background
FindBoundaryFromBackground(image, pixel_y, direction) ==
    ScanFrom(image, pixel_y, direction, 2)

\* find_background_boundary_v3(img, pixel_x, pixel_y, direction)
FindBackgroundBoundaryV3(image, pixel_y, direction) ==
    ScanFrom(image, pixel_y, direction, 0)

\* int((cb["y"] / page_rect.height) * img_height), cb_y in quarter units
PixelY(cb_y) == (cb_y * Zoom) \div 4

\* (pixel / img_height) * page_rect.height, in quarter units
PdfY(pixel) == (pixel * 4) \div Zoom

\* the entry appended to checkbox_ranges for the two scan results, or
\* IndexError when a scan raised. top_found and bottom_found record whether
\* top_pixel / bottom_pixel came from the scan or from the fallback to
\* pixel_y.
MakeRange(i, cb_y, pixel_y, top, bottom) ==
    LET top_pixel == IF top.tag = "None" THEN pixel_y ELSE top.py
        bottom_pixel == IF bottom.tag = "None" THEN pixel_y ELSE bottom.py
    IN IF top.tag = "IndexError" \/ bottom.tag = "IndexError"
       THEN [tag |-> "IndexError"]
       ELSE [tag |-> "range",
             checkbox_id |-> i - 1,
             checkbox_y |-> cb_y,
             y_top |-> PdfY(top_pixel),
             y_bottom |-> PdfY(bottom_pixel),
             range_height |-> PdfY(bottom_pixel) - PdfY(top_pixel),
             top_found |-> top.tag = "pixel",
             bottom_found |-> bottom.tag = "pixel"]

\* the body of the loop over the checkboxes, for the i-th checkbox: both
\* scans from its raster row, then the entry (each scan is evaluated once)
RangeOf(image, i, cb_y) ==
    CHOOSE r \in {MakeRange(i, cb_y, PixelY(cb_y), top, bottom) :
                     top \in {FindBackgroundBoundaryV3(image, PixelY(cb_y), "up")},
                     bottom \in {FindBackgroundBoundaryV3(image, PixelY(cb_y), "down")}} : TRUE

----------------------------------------------------------------------------
(* Pages *)

Run(c, n) == [i \in 1..n |-> c]

RECURSIVE Expand(_)
Expand(segs) ==
    IF segs = <<>> THEN <<>> ELSE Run(segs[1].c, segs[1].n) \o Expand(Tail(segs))

\* colour runs of the generated columns: a checkbox interior, a page margin,
\* a shaded row background and a frame line
SegKinds ==
    { [c |-> White, n |-> 20], [c |-> White, n |-> 160],
      [c |-> LightGray, n |-> 60], [c |-> Gray, n |-> 2] }

GeneratedSegs ==
    {s \in UNION {[1..k -> SegKinds] : k \in 1..MaxSegs} :
        \A i \in 1..(Len(s) - 1) : s[i].c # s[i + 1].c}

RECURSIVE StartOf(_, _)
StartOf(segs, i) == IF i = 1 THEN 0 ELSE StartOf(segs, i - 1) + segs[i - 1].n

\* raster rows at which a generated page may hold a checkbox centre: one and
\* three quarters down each run
SpotsOf(segs) ==
    UNION {{StartOf(segs, i) + segs[i].n \div 4, StartOf(segs, i) + (3 * segs[i].n) \div 4} :
              i \in DOMAIN segs}

\* the column of spec scenario 1: from the centre, in both directions, white
\* for 20 rows, gray for 10, light gray for 40, then white
Scenario1(gray) ==
    << [c |-> White, n |-> 90], [c |-> LightGray, n |-> 40], [c |-> gray, n |-> 10],
       [c |-> White, n |-> 39],
       [c |-> gray, n |-> 10], [c |-> LightGray, n |-> 40], [c |-> White, n |-> 90] >>

\* the same column with a dark line closing the light-gray span
Scenario1Framed ==
    << [c |-> White, n |-> 20], [c |-> Gray, n |-> 2],
       [c |-> LightGray, n |-> 40], [c |-> Gray, n |-> 10],
       [c |-> White, n |-> 39],
       [c |-> Gray, n |-> 10], [c |-> LightGray, n |-> 40],
       [c |-> Gray, n |-> 2], [c |-> White, n |-> 20] >>

\* two framed checkboxes, one above the other, in shaded rows
TwoRows ==
    << [c |-> White, n |-> 20], [c |-> Gray, n |-> 2], [c |-> LightGray, n |-> 10],
       [c |-> Gray, n |-> 2], [c |-> White, n |-> 20], [c |-> Gray, n |-> 2],
       [c |-> LightGray, n |-> 20],
       [c |-> Gray, n |-> 2], [c |-> White, n |-> 20], [c |-> Gray, n |-> 2],
       [c |-> LightGray, n |-> 10], [c |-> Gray, n |-> 2], [c |-> White, n |-> 20] >>

Pages ==
    {[segs |-> s, spots |-> SpotsOf(s)] : s \in GeneratedSegs}
        \cup {[segs |-> Scenario1(Gray), spots |-> {159}],
              [segs |-> Scenario1(Silver), spots |-> {159}],
              [segs |-> Scenario1Framed, spots |-> {91}],
              [segs |-> TwoRows, spots |-> {44, 88}]}

\* checkbox centres of a page: up to MaxBoxes of its spots, top to bottom,
\* all on a raster row (sub = 0) or all a quarter unit below one (sub = 1)
CheckboxLists(spots, sub) ==
    {cbs \in UNION {[1..k -> {PdfY(p) + sub : p \in spots}] : k \in 1..MaxBoxes} :
        \A i \in 1..(Len(cbs) - 1) : cbs[i] < cbs[i + 1]}

----------------------------------------------------------------------------
(* Specification SpecBand: calculate_checkbox_y_ranges on one page *)

NoGrid ==
    /\ program = "ranges"
    /\ pc = "idle"
    /\ service_cols = <<>>
    /\ x_to_service = <<>>
    /\ final_mapping = EmptyGrid
    /\ rows_left = 0
    /\ oil_mapping = EmptyResult
    /\ insp_mapping = EmptyResult
    /\ output_data = Pending
    /\ ordered_mapping = Pending
    /\ text_data = <<>>
    /\ idx = 0
    /\ pass = 0
    /\ first_result = EmptyGrid

InitBand ==
    /\ NoGrid
    /\ NoCols
    /\ NoText
    /\ NoPix
    /\ NoRun
    /\ \E page \in Pages : \E sub \in {0, 1} :
          /\ img = page.segs
          /\ checkboxes \in CheckboxLists(page.spots, sub)
    /\ cb_i = 0
    /\ checkbox_ranges = <<>>
    /\ band_pc = "ranges"

\* one iteration of "for i, cb in enumerate(checkboxes)"
CalcRange ==
    /\ band_pc = "ranges"
    /\ cb_i < Len(checkboxes)
    /\ \E r \in {RangeOf(image, cb_i + 1, checkboxes[cb_i + 1]) : image \in {Expand(img)}} :
          IF r.tag = "IndexError"
          THEN /\ band_pc' = "IndexError"
               /\ UNCHANGED <<cb_i, checkbox_ranges>>
          ELSE /\ checkbox_ranges' = Append(checkbox_ranges, r)
               /\ cb_i' = cb_i + 1
               /\ UNCHANGED band_pc
    /\ UNCHANGED <<img, checkboxes, gridVars, pageVars>>

\* return checkbox_ranges
ReturnRanges ==
    /\ band_pc = "ranges"
    /\ cb_i = Len(checkboxes)
    /\ band_pc' = "done"
    /\ UNCHANGED <<img, checkboxes, cb_i, checkbox_ranges, gridVars, pageVars>>

NextBand == CalcRange \/ ReturnRanges

SpecBand == InitBand /\ [][NextBand]_vars

----------------------------------------------------------------------------
(* Properties of the grid builder and of the combination of documents *)

NoRepeat(lst) == \A i, j \in DOMAIN lst : i # j => lst[i] # lst[j]

GridNoRepeat(g) ==
    \A k \in DOMAIN g.items : \A m \in DOMAIN g.items[k] : NoRepeat(g.items[k][m])

\* (service_key, model_name) pairs that both source results hold
InBoth(k, m) == m \in ModelsOf(oil_mapping, k) /\ m \in ModelsOf(insp_mapping, k)

BothExtracted == oil_mapping.order # <<>> /\ insp_mapping.order # <<>>

\* C1: after any sequence of row appends within a document and after the two
\* documents' grids are combined, by either entry point, no item list of any
\* (service_key, model_name) pair holds a string more than once.
C1_NoRepeatedLine ==
    /\ GridNoRepeat(final_mapping)
    /\ GridNoRepeat(oil_mapping)
    /\ GridNoRepeat(insp_mapping)
    /\ GridNoRepeat(output_data.services)
    /\ GridNoRepeat(ordered_mapping.services)

\* C1 witness: step2 has merged two documents that hold the same line for
\* the same pair, next to another line.
C1_Witness ==
    /\ output_data.status = "ok"
    /\ \E k \in DOMAIN oil_mapping.items : \E m \in DOMAIN oil_mapping.items[k] :
          /\ InBoth(k, m)
          /\ SeqToSet(oil_mapping.items[k][m]) \cap SeqToSet(insp_mapping.items[k][m]) # {}
          /\ Len(output_data.services.items[k][m]) = 2

\* the combined list of a pair is the union of the two source lists
UnionOfSources(g, k, m) ==
    /\ k \in DOMAIN g.items
    /\ m \in DOMAIN g.items[k]
    /\ SeqToSet(g.items[k][m]) =
          SeqToSet(oil_mapping.items[k][m]) \cup SeqToSet(insp_mapping.items[k][m])
    /\ NoRepeat(g.items[k][m])

\* C2: when the grids of the oil and the inspection document are combined,
\* every (service_key, model_name) pair present in both gets the union of
\* the two lists, each line once. Stated for both entry points that combine.
C2_CombinedIsUnion ==
    /\ (output_data.status = "ok" /\ BothExtracted) =>
          \A k \in DOMAIN oil_mapping.items : \A m \in DOMAIN oil_mapping.items[k] :
              InBoth(k, m) => UnionOfSources(output_data.services, k, m)
    /\ ordered_mapping.status = "ok" =>
          \A k \in DOMAIN oil_mapping.items : \A m \in DOMAIN oil_mapping.items[k] :
              InBoth(k, m) => UnionOfSources(ordered_mapping.services, k, m)

\* list1 followed by the items of list2 that list1 lacks
OrderedUnion(list1, list2) ==
    list1 \o SelectSeq(list2, LAMBDA t : ~InList(t, list1))

\* C3: after merging two documents the first source's items come first in
\* their original order, followed by the second source's new items in their
\* original order.
C3_MergeKeepsFirstSeenOrder ==
    (output_data.status = "ok" /\ BothExtracted) =>
        \A k \in DOMAIN output_data.services.items :
            \A m \in DOMAIN output_data.services.items[k] :
                output_data.services.items[k][m] =
                    OrderedUnion(ListOf(oil_mapping, k, m), ListOf(insp_mapping, k, m))

\* C4: feeding the rows of a page to the grid builder a second time leaves
\* every per-(service, model) list as it was after the first time: same
\* members, same order, same keys.
C4_ReprocessingIsIdempotent ==
    (pass = 2 /\ idx = Len(text_data)) => final_mapping = first_result

\* C4 witness: two rows were fed twice and put two lines into one list.
C4_Witness ==
    /\ pass = 2
    /\ idx = Len(text_data)
    /\ Len(text_data) = 2
    /\ \E k \in DOMAIN final_mapping.items : \E m \in DOMAIN final_mapping.items[k] :
          Len(final_mapping.items[k][m]) = 2

\* rows of text_data that have gone through the mapping loop
Processed == IF pass = 2 THEN DOMAIN text_data ELSE 1..idx

\* a processed row that puts line t under (k, m): its service is k and a
\* bullet was found in a model column named m
Supports(i, k, m, t) ==
    /\ text_data[i].text = t
    /\ ServiceOfItem(service_cols, x_to_service, text_data[i].x) = k
    /\ \E mx \in text_data[i].bullets : model_cols[mx] = m

\* C5: a row for which no bullet is found in any model column contributes
\* nothing: every service key, every model entry and every line of the grid
\* comes from a processed row with a bullet in that model's column.
C5_NoBulletNoEntry ==
    /\ SeqToSet(final_mapping.order) = DOMAIN final_mapping.items
    /\ \A k \in DOMAIN final_mapping.items :
          /\ DOMAIN final_mapping.items[k] # {}
          /\ \A m \in DOMAIN final_mapping.items[k] :
                /\ final_mapping.items[k][m] # <<>>
                /\ \A t \in SeqToSet(final_mapping.items[k][m]) :
                      \E i \in Processed : Supports(i, k, m, t)

\* C5 witness: a row with a service and no bullet was processed after a row
\* with a bullet, and its line is nowhere under its service.
C5_Witness ==
    /\ idx = 2
    /\ pass = 1
    /\ text_data[2].bullets = {}
    /\ text_data[1].bullets # {}
    /\ text_data[1].text # text_data[2].text
    /\ LET k == ServiceOfItem(service_cols, x_to_service, text_data[2].x)
       IN /\ k # None
          /\ k \in DOMAIN final_mapping.items
          /\ \A m \in DOMAIN final_mapping.items[k] :
                ~InList(text_data[2].text, final_mapping.items[k][m])

GridKeys(g) == SeqToSet(g.order) \cup DOMAIN g.items

ProducedKeys ==
    GridKeys(final_mapping) \cup GridKeys(oil_mapping) \cup GridKeys(insp_mapping)
        \cup GridKeys(output_data.services) \cup GridKeys(ordered_mapping.services)

\* the eight keys the interface description lists
EightKeys ==
    { "service_15000", "service_30000", "service_45000", "service_60000",
      "service_90000", "service_120000", "service_180000", "service_time_dependent" }

\* C6 (as stated): every service key of a produced grid is one of the eight
\* listed keys.
C6_KeysAmongEight == ProducedKeys \subseteq EightKeys

\* C6 (amended): every service key of a produced grid is one of the nine keys
\* of SERVICE_ORDER, the eight listed ones and service_240000; a column whose
\* header matches no interval marker gives no key.
C6_KeysAmongServiceOrder == ProducedKeys \subseteq SeqToSet(SERVICE_ORDER)

\* C6 witness: a grid was returned for a layout with a 240 tkm column and an
\* unmatched column, and it holds the key service_240000.
C6_Witness ==
    /\ output_data.status = "ok"
    /\ \E sx \in DOMAIN service_cols : sx \notin DOMAIN x_to_service
    /\ "service_240000" \in GridKeys(output_data.services)

Rank(k) == CHOOSE i \in DOMAIN SERVICE_ORDER : SERVICE_ORDER[i] = k

InServiceOrder(order) ==
    \A i, j \in DOMAIN order : i < j => Rank(order[i]) < Rank(order[j])

\* C7: the service keys of the combined grid returned for a model directory
\* are in increasing interval order with the time-dependent key last,
\* whichever documents contributed.
C7_KeysInServiceOrder ==
    /\ output_data.status = "ok" => InServiceOrder(output_data.services.order)
    /\ ordered_mapping.status = "ok" => InServiceOrder(ordered_mapping.services.order)

----------------------------------------------------------------------------
(* Properties of the row-band resolver *)

BothFound(r) == r.top_found /\ r.bottom_found

\* C8: for every checkbox for which the scan found both a top and a bottom
\* boundary, top_y <= checkbox_y <= bottom_y in PDF coordinates, the
\* truncation of the centre to a raster row included.
C8_BandContainsCheckbox ==
    \A i \in DOMAIN checkbox_ranges :
        BothFound(checkbox_ranges[i]) =>
            /\ checkbox_ranges[i].y_top <= checkbox_ranges[i].checkbox_y
            /\ checkbox_ranges[i].checkbox_y <= checkbox_ranges[i].y_bottom

\* C8 witness: both boundaries were found for a checkbox whose centre lies
\* between two raster rows.
C8_Witness ==
    \E i \in DOMAIN checkbox_ranges :
        /\ BothFound(checkbox_ranges[i])
        /\ checkbox_ranges[i].checkbox_y # PdfY(PixelY(checkbox_ranges[i].checkbox_y))

\* two bands share more than one point
Overlap(r1, r2) == Max(r1.y_top, r2.y_top) < Min(r1.y_bottom, r2.y_bottom)

\* C9: the row bands of two distinct checkboxes of a page whose boundaries
\* were found do not overlap in Y, except possibly at one shared boundary
\* point.
C9_BandsDoNotOverlap ==
    \A i, j \in DOMAIN checkbox_ranges :
        (i # j /\ BothFound(checkbox_ranges[i]) /\ BothFound(checkbox_ranges[j]))
            => ~Overlap(checkbox_ranges[i], checkbox_ranges[j])

\* C10: for the checkbox of scenario 1 (white 20, gray 10, light gray 40,
\* then white, in both directions) the reported band runs from one end of
\* the light-gray span to the other: the top is its outer row above the
\* centre (or the row just past it), the bottom its outer row below.
C10_Scenario1Band ==
    (img \in {Scenario1(Gray), Scenario1(Silver)} /\ Len(checkbox_ranges) = 1) =>
        LET r == checkbox_ranges[1]
            c == PixelY(r.checkbox_y)
        IN /\ r.y_top \in {PdfY(c - 69), PdfY(c - 70)}
           /\ r.y_bottom \in {PdfY(c + 69), PdfY(c + 70)}

----------------------------------------------------------------------------
(* Scan budget and fallback of the row-band resolver *)

\* a found boundary is at most ScanBudget raster rows from the raster row of
\* the checkbox centre, on the side that was scanned
WithinBudget(r) ==
    LET centre == PdfY(PixelY(r.checkbox_y))
    IN /\ r.top_found => (centre - r.y_top) \in 0..PdfY(ScanBudget)
       /\ r.bottom_found => (r.y_bottom - centre) \in 0..PdfY(ScanBudget)

\* a side whose scan found nothing takes the checkbox centre itself
FallsBackToCentre(r) ==
    /\ ~r.top_found => r.y_top = r.checkbox_y
    /\ ~r.bottom_found => r.y_bottom = r.checkbox_y

\* C11: every boundary the scan returns lies within 150 raster rows of the
\* checkbox's raster centre, and a scan that finds no boundary within that
\* budget ends with the checkbox's own centre as the boundary (no boundary
\* on either side gives top_y = bottom_y = checkbox_y) instead of failing.
C11_BudgetAndFallback ==
    /\ band_pc # "IndexError"
    /\ \A i \in DOMAIN checkbox_ranges :
          WithinBudget(checkbox_ranges[i]) /\ FallsBackToCentre(checkbox_ranges[i])

----------------------------------------------------------------------------
(* Column classifier: the service columns, their headers and keys, and the *)
(* model columns of map_services_intersection_based. X and Y are in        *)
(* hundredths of a PDF unit.                                               *)

\* n PDF units
Units(n) == n * 100

\* round(cb_x, 1); the inputs hold no value half way between two tenths
Round1(x) == ((x + 5) \div 10) * 10

\* the tokens of the header phrases printed above the service columns
Phrases ==
  [P15 |->
    <<<<"E", "v", "e", "r", "y">>,
       <<"1", "5">>,
       <<"t", "k", "m", "/", "1", "0">>,
       <<"t", "m", "l", "s">>,
       <<"o", "r">>,
       <<"1">>,
       <<"y", "e", "a", "r">>>>,
    P30 |->
    <<<<"E", "v", "e", "r", "y">>,
       <<"3", "0">>,
       <<"t", "k", "m", "/", "2", "0">>,
       <<"t", "m", "l", "s">>,
       <<"o", "r">>,
       <<"2">>,
       <<"y", "e", "a", "r", "s">>>>,
    P45 |->
    <<<<"E", "v", "e", "r", "y">>,
       <<"4", "5">>,
       <<"t", "k", "m", "/", "3", "0">>,
       <<"t", "m", "l", "s">>,
       <<"o", "r">>,
       <<"3">>,
       <<"y", "e", "a", "r", "s">>>>,
    P60 |->
    <<<<"E", "v", "e", "r", "y">>,
       <<"6", "0">>,
       <<"t", "k", "m", "/", "4", "0">>,
       <<"t", "m", "l", "s">>,
       <<"o", "r">>,
       <<"4">>,
       <<"y", "e", "a", "r", "s">>>>,
    P90 |->
    <<<<"E", "v", "e", "r", "y">>,
       <<"9", "0">>,
       <<"t", "k", "m", "/", "6", "0">>,
       <<"t", "m", "l", "s">>,
       <<"o", "r">>,
       <<"6">>,
       <<"y", "e", "a", "r", "s">>>>,
    P120 |->
    <<<<"E", "v", "e", "r", "y">>,
       <<"1", "2", "0">>,
       <<"t", "k", "m", "/", "8", "0">>,
       <<"t", "m", "l", "s">>,
       <<"o", "r">>,
       <<"8">>,
       <<"y", "e", "a", "r", "s">>>>,
    P180 |->
    <<<<"E", "v", "e", "r", "y">>,
       <<"1", "8", "0">>,
       <<"t", "k", "m", "/", "1", "2", "0">>,
       <<"t", "m", "l", "s">>,
       <<"o", "r">>,
       <<"1", "2">>,
       <<"y", "e", "a", "r", "s">>>>,
    P240 |->
    <<<<"E", "v", "e", "r", "y">>,
       <<"2", "4", "0">>,
       <<"t", "k", "m", "/", "1", "6", "0">>,
       <<"t", "m", "l", "s">>>>,
    PTime |->
    <<<<"T", "i", "m", "e", "-", "d", "e", "p", "e", "n", "d", "e", "n", "t">>,
       <<"w", "o", "r", "k">>>>,
    PTimeCaps |->
    <<<<"T", "I", "M", "E", "-", "D", "E", "P", "E", "N", "D", "E", "N", "T">>,
       <<"w", "o", "r", "k">>>>,
    PRemarks |->
    <<<<"R", "e", "m", "a", "r", "k", "s">>>> ]

\* the key a phrase stands for, by the interval it names (the interface
\* description has no key for 240 tkm and none for a remarks column)
IntendedKey ==
  [P15 |-> "service_15000",
   P30 |-> "service_30000",
   P45 |-> "service_45000",
   P60 |-> "service_60000",
   P90 |-> "service_90000",
   P120 |-> "service_120000",
   P180 |-> "service_180000",
   P240 |-> None,
   PTime |-> "service_time_dependent",
   PTimeCaps |-> "service_time_dependent",
   PRemarks |-> None ]

\* label tokens that a page may carry around the model columns: text, x, y
LabelTokens ==
    << [text |-> <<"P", "a", "n", "a", "m", "e", "r", "a">>, x |-> Units(340), y |-> Units(80)],
       [text |-> <<"G", "T", "S">>, x |-> Units(358), y |-> Units(80)],
       [text |-> <<"C", "a", "y", "e", "n", "n", "e">>, x |-> Units(300), y |-> Units(80)],
       [text |-> <<"M", "a", "c", "a", "n">>, x |-> Units(299), y |-> Units(80)],
       [text |-> <<"4", "S">>, x |-> Units(380), y |-> Units(80)],
       [text |-> <<"T", "u", "r", "b", "o">>, x |-> Units(390), y |-> Units(80)],
       [text |-> <<"T", "a", "y", "c", "a", "n">>, x |-> Units(405), y |-> Units(80)],
       [text |-> <<"B", "o", "x", "s", "t", "e", "r">>, x |-> Units(340), y |-> Units(120)],
       [text |-> <<"o", "r">>, x |-> Units(340), y |-> Units(80)],
       [text |-> <<"1", "/", "1", "2", "/", "2", "0", "2", "1">>, x |-> Units(340), y |-> Units(80)],
       [text |-> <<"S">>, x |-> Units(340), y |-> Units(80)] >>

\* ["or", "and", "the", "years", "tkm", "tmls", "->", "Every", "/"]
LabelStopWords ==
    { <<"o", "r">>,
      <<"a", "n", "d">>,
      <<"t", "h", "e">>,
      <<"y", "e", "a", "r", "s">>,
      <<"t", "k", "m">>,
      <<"t", "m", "l", "s">>,
      <<"-", ">">>,
      <<"E", "v", "e", "r", "y">>,
      <<"/">> }

\* " ".join(words)
RECURSIVE Join(_)
Join(ws) ==
    IF ws = <<>> THEN <<>>
    ELSE IF Len(ws) = 1 THEN ws[1]
    ELSE ws[1] \o <<" ">> \o Join(Tail(ws))

TextsOf(items) == [i \in DOMAIN items |-> items[i].text]

\* sorted(all_checkboxes_by_x.keys()), the keys being round(cb_x, 1)
ServiceXList(wx) == SortedSeq({Round1(wx[i]) : i \in DOMAIN wx})

\* header = " ".join(header_words[:8]) for the spans above the anchor whose
\* centre is less than 15 units from the column
HeaderOf(text, measures_y, sx) ==
    LET header_words ==
            TextsOf(SelectSeq(text, LAMBDA item :
                        item.y < measures_y /\ Abs(item.x - sx) < Units(15)))
    IN Join(SubSeq(header_words, 1, Min(8, Len(header_words))))

ServiceCols(text, measures_y, service_xs) ==
    [sx \in SeqToSet(service_xs) |-> HeaderOf(text, measures_y, sx)]

IsDigit(c) == c \in {"0", "1", "2", "3", "4", "5", "6", "7", "8", "9"}

\* re.match(r'^\d{1,2}/\d{1,2}/\d{2,4}$', text)
IsRealDate(text) ==
    \E i, j \in DOMAIN text :
        /\ i < j
        /\ text[i] = "/" /\ text[j] = "/"
        /\ (i - 1) \in 1..2
        /\ (j - i - 1) \in 1..2
        /\ (Len(text) - j) \in 2..4
        /\ \A k \in DOMAIN text \ {i, j} : IsDigit(text[k])

\* (mutant) the candidates are not limited to the 20..100 units left of the
\* first service column
IsCandidateAnywhere(item, measures_y, first_service_x) ==
    /\ ~(item.y >= measures_y)
    /\ ~IsRealDate(item.text)
    /\ item.text \notin LabelStopWords
    /\ ~(Len(item.text) < 2)

\* the spans kept as model-label candidates (lines 136-150)
IsCandidate(item, measures_y, first_service_x) ==
    LET distance == first_service_x - item.x
    IN /\ ~(item.y >= measures_y)
       /\ ~(item.x >= first_service_x)
       /\ ~(distance < Units(20) \/ distance > Units(100))
       /\ ~IsRealDate(item.text)
       /\ item.text \notin LabelStopWords
       /\ ~(Len(item.text) < 2)

\* x_positions: a candidate X is kept unless an earlier kept X is less than
\* 10 units away (lines 155-163)
RECURSIVE ClusterX(_, _)
ClusterX(candidates, x_positions) ==
    IF candidates = <<>> THEN x_positions
    ELSE IF \E i \in DOMAIN x_positions : Abs(candidates[1].x - x_positions[i]) < Units(10)
    THEN ClusterX(Tail(candidates), x_positions)
    ELSE ClusterX(Tail(candidates), Append(x_positions, candidates[1].x))

\* the while loop over the sorted x_positions (lines 169-180)
RECURSIVE FinalXPositions(_, _)
FinalXPositions(x_positions, i) ==
    IF ~(i < Len(x_positions) + 1) THEN <<>>
    ELSE LET current_x == x_positions[i]
         IN IF i + 1 < Len(x_positions) + 1
               /\ x_positions[i + 1] - current_x >= Units(15)
               /\ x_positions[i + 1] - current_x <= Units(25)
            THEN <<current_x, x_positions[i + 1]>> \o FinalXPositions(x_positions, i + 2)
            ELSE <<current_x>> \o FinalXPositions(x_positions, i + 1)

\* find_model_column_x_positions(page, measures_y, service_x_positions)
FindModelColumnXPositions(text, measures_y, service_xs) ==
    IF service_xs = <<>> THEN <<>>
    ELSE LET first_service_x ==
                 CHOOSE a \in SeqToSet(service_xs) : \A b \in SeqToSet(service_xs) : a <= b
             candidates ==
                 SelectSeq(text, LAMBDA item : IsCandidate(item, measures_y, first_service_x))
         IN IF candidates = <<>> THEN <<>>
            ELSE FinalXPositions(SortedSeq(SeqToSet(ClusterX(candidates, <<>>))), 1)

\* decimal digits of a natural number, as characters
RECURSIVE Digits(_)
Digits(n) ==
    LET d == <<"0", "1", "2", "3", "4", "5", "6", "7", "8", "9">>
    IN IF n < 10 THEN <<d[n + 1]>> ELSE Digits(n \div 10) \o <<d[(n % 10) + 1]>>

\* f"Model Column {model_x:.0f}" (line 221); the inputs hold no X half way
\* between two integers
ModelColumnPlaceholder(model_x) ==
    <<"M", "o", "d", "e", "l", " ", "C", "o", "l", "u", "m", "n", " ">>
        \o Digits((model_x + 50) \div 100)

\* the texts of a list without repetitions, in first-seen order (lines 213-218)
RECURSIVE Unique(_, _)
Unique(texts, seen) ==
    IF texts = <<>> THEN <<>>
    ELSE IF texts[1] \in seen THEN Unique(Tail(texts), seen)
    ELSE <<texts[1]>> \o Unique(Tail(texts), seen \cup {texts[1]})

\* (mutant) the name is looked up among the tokens of three characters or more
GetModelNameForXLongTokens(text, model_x, measures_y) ==
    LET nearby == SelectSeq(text, LAMBDA item :
                      /\ ~(item.y >= measures_y)
                      /\ Abs(item.x - model_x) < Units(10)
                      /\ ~IsRealDate(item.text)
                      /\ item.text \notin LabelStopWords
                      /\ Len(item.text) >= 3)
        unique == Unique(TextsOf(nearby), {})
    IN IF nearby # <<>> THEN Join(SubSeq(unique, 1, Min(5, Len(unique))))
       ELSE ModelColumnPlaceholder(model_x)

\* get_model_name_for_x(page, model_x, measures_y) (lines 185-221)
GetModelNameForX(text, model_x, measures_y) ==
    LET nearby == SelectSeq(text, LAMBDA item :
                      /\ ~(item.y >= measures_y)
                      /\ Abs(item.x - model_x) < Units(10)
                      /\ ~IsRealDate(item.text)
                      /\ item.text \notin LabelStopWords
                      /\ Len(item.text) >= 2)
        unique == Unique(TextsOf(nearby), {})
    IN IF nearby # <<>> THEN Join(SubSeq(unique, 1, Min(5, Len(unique))))
       ELSE ModelColumnPlaceholder(model_x)

\* model_cols[model_x] = get_model_name_for_x(...) for the X found (lines 560-563)
ModelCols(text, measures_y, model_xs) ==
    [model_x \in SeqToSet(model_xs) |-> GetModelNameForX(text, model_x, measures_y)]

----------------------------------------------------------------------------
(* Specification SpecCols: the column set-up of one document *)

\* widgets that one page layout may hold
MaxWidgets == 2

\* label tokens that one page layout may hold
MaxLabels == 2

\* Y of the "Measures" anchor
MeasuresY == Units(100)

\* Y of the header line above the anchor
HeaderY == Units(80)

PhraseNames ==
    << "P15", "P30", "P45", "P60", "P90", "P120", "P180", "P240", "PTime", "PTimeCaps",
       "PRemarks" >>

\* two header positions, each with one phrase printed at it
HeaderLayouts ==
    { (Units(400) :> PhraseNames[i]) @@ (Units(430) :> PhraseNames[(i % Len(PhraseNames)) + 1]) :
          i \in DOMAIN PhraseNames }

\* the spans of the header phrases, position by position from the left
HeaderTokens(headers) ==
    LET xs == SortedSeq(DOMAIN headers)
        TokensAt(hx) == [j \in DOMAIN Phrases[headers[hx]] |->
                            [text |-> Phrases[headers[hx]][j], x |-> hx, y |-> HeaderY]]
        RECURSIVE From(_)
        From(i) == IF i > Len(xs) THEN <<>> ELSE TokensAt(xs[i]) \o From(i + 1)
    IN From(1)

\* cb_x of checkbox widgets: two in one rounding bucket, one 3 units to the
\* right of them, one a column further
CheckboxXs == {40000, 40004, 40300, 43000}

\* the label tokens picked for a page, in document order
LabelLists ==
    { [i \in DOMAIN pick |-> LabelTokens[pick[i]]] :
          pick \in { p \in UNION {[1..k -> DOMAIN LabelTokens] : k \in 0..MaxLabels} :
                        \A i \in 1..(Len(p) - 1) : p[i] < p[i + 1] } }

\* page layouts: every pair of header phrases over two checkbox columns, and
\* one pair of headers over every choice of widgets and labels
ColumnPages ==
    { [headers |-> h, wx |-> <<43000, 40000>>, labels |-> <<LabelTokens[1]>>] :
          h \in HeaderLayouts }
    \cup
    { [headers |-> (Units(400) :> "P15") @@ (Units(430) :> "P180"), wx |-> w, labels |-> l] :
          w \in UNION {[1..k -> CheckboxXs] : k \in 0..MaxWidgets}, l \in LabelLists }

InitCols ==
    /\ program = "map_services"
    /\ pc = "columns"
    /\ service_cols = <<>>
    /\ x_to_service = <<>>
    /\ final_mapping = EmptyGrid
    /\ rows_left = 0
    /\ oil_mapping = EmptyResult
    /\ insp_mapping = EmptyResult
    /\ output_data = Pending
    /\ ordered_mapping = Pending
    /\ text_data = <<>>
    /\ idx = 0
    /\ pass = 0
    /\ first_result = EmptyGrid
    /\ NoBand
    /\ NoText
    /\ NoPix
    /\ NoRun
    /\ \E page \in ColumnPages :
          /\ page_headers = page.headers
          /\ widgets_x = page.wx
          /\ all_text = HeaderTokens(page.headers) \o page.labels
    /\ service_x_positions = <<>>
    /\ final_x_positions = <<>>
    /\ col_pc = "widgets"
    /\ model_names = <<>>

\* the widgets of all pages are grouped by round(cb_x, 1) (lines 493-513)
FindServiceColumns ==
    /\ col_pc = "widgets"
    /\ service_x_positions' = ServiceXList(widgets_x)
    /\ col_pc' = "headers"
    /\ UNCHANGED <<page_headers, widgets_x, all_text, final_x_positions, model_names,
                   gridVars, bandVars, textVars, pixVars, runVars>>

\* service_cols[sx] = header (lines 542-549)
BuildHeaders ==
    /\ col_pc = "headers"
    /\ service_cols' = ServiceCols(all_text, MeasuresY, service_x_positions)
    /\ col_pc' = "models"
    /\ UNCHANGED <<program, pc, x_to_service, final_mapping, rows_left, oil_mapping,
                   insp_mapping, output_data, ordered_mapping, text_data, idx, pass,
                   first_result, page_headers, widgets_x, all_text, service_x_positions,
                   final_x_positions, model_names, bandVars, textVars, pixVars, runVars>>

\* model_x_positions = find_model_column_x_positions(...); without model
\* columns the function returns {} (lines 553-558); otherwise every column
\* found is given its name (lines 560-563)
FindModelColumns ==
    /\ col_pc = "models"
    /\ final_x_positions' = FindModelColumnXPositions(all_text, MeasuresY, service_x_positions)
    /\ model_names' = ModelCols(all_text, MeasuresY, final_x_positions')
    /\ col_pc' = IF final_x_positions' = <<>> THEN "empty" ELSE "keys"
    /\ UNCHANGED <<page_headers, widgets_x, all_text, service_x_positions,
                   gridVars, bandVars, textVars, pixVars, runVars>>

\* x_to_service is filled from the headers (lines 575-594)
MapXToService ==
    /\ col_pc = "keys"
    /\ x_to_service' = XToService(service_cols)
    /\ col_pc' = "done"
    /\ UNCHANGED <<program, pc, service_cols, final_mapping, rows_left, oil_mapping,
                   insp_mapping, output_data, ordered_mapping, text_data, idx, pass,
                   first_result, page_headers, widgets_x, all_text, service_x_positions,
                   final_x_positions, model_names, bandVars, textVars, pixVars, runVars>>

NextCols == FindServiceColumns \/ BuildHeaders \/ FindModelColumns \/ MapXToService

SpecCols == InitCols /\ [][NextCols]_vars

----------------------------------------------------------------------------
(* Properties of the column classifier *)

\* find_model_column_x_positions has returned
ModelColumnsFound == col_pc \in {"keys", "done", "empty"}

FirstServiceX == service_x_positions[1]

\* the spans of the page that pass the candidate filter
Candidates ==
    IF service_x_positions = <<>> THEN {}
    ELSE {all_text[i] : i \in {k \in DOMAIN all_text :
                                  IsCandidate(all_text[k], MeasuresY, FirstServiceX)}}

\* C12: two model-label tokens whose X are 15 to 25 units apart (18, say)
\* end up as a single model column, and two tokens 40 units apart as two
\* model columns.
C12_ModelColumnTieBreak ==
    ModelColumnsFound =>
        /\ \A i, j \in DOMAIN final_x_positions :
              ~((final_x_positions[j] - final_x_positions[i]) \in Units(15)..Units(25))
        /\ \A a, b \in Candidates :
              a.x - b.x = Units(40) =>
                  \E i, j \in DOMAIN final_x_positions :
                      /\ i # j
                      /\ Abs(a.x - final_x_positions[i]) < Units(10)
                      /\ Abs(b.x - final_x_positions[j]) < Units(10)

\* C13: a service column whose nearby header tokens are Every, 15, tkm/10,
\* tmls, or, 1, year gets service_15000, and every column under the header
\* phrase of the 15, 30, 45, 60, 90, 120 or 180 tkm interval, or under a
\* time-dependent header, gets the key of that interval (one key a column).
C13_HeaderGivesIntervalKey ==
    col_pc = "done" =>
        \A sx \in DOMAIN service_cols :
            /\ service_cols[sx] = Hdr15 => XToServiceGet(x_to_service, sx) = "service_15000"
            /\ \A hx \in DOMAIN page_headers :
                  (Abs(sx - hx) < Units(15) /\ IntendedKey[page_headers[hx]] # None)
                      => XToServiceGet(x_to_service, sx) = IntendedKey[page_headers[hx]]

\* C13 witness: the tokens of scenario 2 made up the header of a column and
\* the column has the key service_15000, next to a column of the 30 tkm
\* interval.
C13_Witness ==
    /\ col_pc = "done"
    /\ \E sx \in DOMAIN x_to_service :
          service_cols[sx] = Hdr15 /\ x_to_service[sx] = "service_15000"
    /\ \E sx \in DOMAIN x_to_service : x_to_service[sx] = "service_30000"

\* C14: every model column X is strictly left of the smallest service column
\* X, between 20 and 100 units away from it, and is the X of a span above the
\* anchor; no X is both a model column and a service column.
C14_ModelColumnsLeftOfServices ==
    ModelColumnsFound =>
        /\ \A i \in DOMAIN final_x_positions :
              /\ final_x_positions[i] < FirstServiceX
              /\ (FirstServiceX - final_x_positions[i]) \in Units(20)..Units(100)
              /\ \E k \in DOMAIN all_text :
                    all_text[k].x = final_x_positions[i] /\ all_text[k].y < MeasuresY
        /\ SeqToSet(final_x_positions) \cap SeqToSet(service_x_positions) = {}

\* C14 witness: a page with a label right of the first service column, or
\* nearer than 20 units to it, got its model columns from its other labels.
C14_Witness ==
    /\ col_pc = "done"
    /\ final_x_positions # <<>>
    /\ \E k \in DOMAIN all_text :
          /\ all_text[k].y < MeasuresY
          /\ all_text[k].x \notin DOMAIN page_headers
          /\ FirstServiceX - all_text[k].x < Units(20)

\* C15: no two service-column centres are closer to each other than the
\* clustering tolerance (at least 8 units): checkbox X positions that lie
\* within the tolerance share one centre.
C15_ServiceColumnsAreClusters ==
    \A i, j \in DOMAIN service_x_positions :
        i < j => service_x_positions[j] - service_x_positions[i] >= Units(8)

----------------------------------------------------------------------------
(* Specification SpecWidgets: calculate_checkbox_y_ranges on a page whose   *)
(* widgets come in any order and may describe one checkbox more than once   *)

\* checkbox centres in the order of page.widgets(): up to MaxBoxes of the
\* page's spots, in any order, a spot possibly more than once
WidgetLists(spots, sub) ==
    UNION {[1..k -> {PdfY(p) + sub : p \in spots}] : k \in 1..MaxBoxes}

InitWidgets ==
    /\ NoGrid
    /\ NoCols
    /\ NoText
    /\ NoPix
    /\ NoRun
    /\ \E page \in Pages : \E sub \in {0, 1} :
          /\ img = page.segs
          /\ checkboxes \in WidgetLists(page.spots, sub)
    /\ cb_i = 0
    /\ checkbox_ranges = <<>>
    /\ band_pc = "ranges"

SpecWidgets == InitWidgets /\ [][NextBand]_vars

\* C16: among the checkboxes for which row bands are computed on a page, no
\* two have centres within 1.0 unit of each other in X and in Y (all the
\* checkboxes of the page modelled here are in one column, so their X are
\* equal; Y is in quarter units).
C16_NoDuplicateCheckboxes ==
    \A i, j \in DOMAIN checkbox_ranges :
        i # j => Abs(checkbox_ranges[i].checkbox_y - checkbox_ranges[j].checkbox_y) >= 4

----------------------------------------------------------------------------
(* Row text assembler: extract_checkboxes_with_y_ranges on one page and     *)
(* clean_with_category_logic                                                *)

CATEGORY_WORDS ==
    { <<"E", "l", "e", "c", "t", "r", "i", "c", "s">>,
      <<"I", "n", "s", "i", "d", "e">>,
      <<"t", "h", "e">>,
      <<"v", "e", "h", "i", "c", "l", "e">>,
      <<"O", "u", "t", "s", "i", "d", "e">>,
      <<"U", "n", "d", "e", "r">>,
      <<"E", "n", "g", "i", "n", "e">>,
      <<"c", "o", "m", "p", "a", "r", "t", "m", "e", "n", "t">>,
      <<"A", "d", "d", "i", "t", "i", "o", "n", "a", "l">>,
      <<"w", "o", "r", "k">>,
      <<"e", "v", "e", "r", "y">>,
      <<"y", "e", "a", "r", "s">>,
      <<"T", "e", "s", "t">>,
      <<"d", "r", "i", "v", "e">>,
      <<"2">>,
      <<"M", "e", "a", "s", "u", "r", "e", "s">> }

\* the junk list of is_junk_full
JunkPatterns ==
    { <<"N", "a", "m", "e", " ", "D", "a", "t", "e">>,
      <<"L", "i", "c", "e", "n", "c", "e", " ", "N", "o">>,
      <<"V", "e", "h", "i", "c", "l", "e", " ", "I", "d", "e", "n", "t">>,
      <<"O", "r", "d", "e", "r", " ", "N", "o">>,
      <<"W", "P", "0", "Z", "Z", "Z">>,
      <<"M", "i", "l", "e", "a", "g", "e">>,
      <<"D", "a", "t", "e">> }

\* words that a page may hold: text, y (centre), x (left edge)
PageWords ==
    << [text |-> <<"E", "l", "e", "c", "t", "r", "i", "c", "s">>, y |-> 15, x |-> 120],
       [text |-> <<"F", "i", "l", "l">>, y |-> 15, x |-> 150],
       [text |-> <<"e", "n", "g", "i", "n", "e">>, y |-> 25, x |-> 120],
       [text |-> <<"o", "i", "l">>, y |-> 25, x |-> 150],
       [text |-> <<"M", "i", "l", "e", "a", "g", "e">>, y |-> 45, x |-> 120],
       [text |-> <<"T", "e", "s", "t">>, y |-> 15, x |-> 90] >>

\* text.split()
RECURSIVE SplitFrom(_, _, _)
SplitFrom(text, i, cur) ==
    IF i > Len(text) THEN (IF cur = <<>> THEN <<>> ELSE <<cur>>)
    ELSE IF text[i] = " "
    THEN (IF cur = <<>> THEN <<>> ELSE <<cur>>) \o SplitFrom(text, i + 1, <<>>)
    ELSE SplitFrom(text, i + 1, Append(cur, text[i]))

Split(text) == SplitFrom(text, 1, <<>>)

\* text.strip()
RECURSIVE Strip(_)
Strip(text) ==
    IF text = <<>> THEN text
    ELSE IF text[1] = " " THEN Strip(Tail(text))
    ELSE IF text[Len(text)] = " " THEN Strip(SubSeq(text, 1, Len(text) - 1))
    ELSE text

IsUpper(c) == c \in DOMAIN UpperToLower

\* (mutant) only the category words are dropped
RECURSIVE DropPrefixCategoryOnly(_)
DropPrefixCategoryOnly(ws) ==
    IF ws = <<>> THEN ws
    ELSE IF ws[1] \in CATEGORY_WORDS THEN DropPrefixCategoryOnly(Tail(ws))
    ELSE ws

\* the while loop of clean_with_category_logic
RECURSIVE DropPrefix(_)
DropPrefix(ws) ==
    IF ws = <<>> THEN ws
    ELSE IF ws[1] = <<>> THEN DropPrefix(Tail(ws))
    ELSE IF ~IsUpper(ws[1][1]) /\ ~IsDigit(ws[1][1]) THEN DropPrefix(Tail(ws))
    ELSE IF ws[1] \in CATEGORY_WORDS THEN DropPrefix(Tail(ws))
    ELSE ws

\* clean_with_category_logic(text)
CleanWithCategoryLogic(text) == Join(DropPrefix(Split(text)))

\* is_junk_full(text)
IsJunkFull(text) == \E j \in JunkPatterns : Contains(text, j)

\* (mutant) the trimmed text is taken as it is
CleanedTextNoFallback(word_list) == CleanWithCategoryLogic(Strip(Join(word_list)))

\* (mutant) the joined text is kept only when trimming leaves nothing
CleanedTextFallbackWhenEmpty(word_list) ==
    LET full_text == Join(word_list)
        cleaned == CleanWithCategoryLogic(Strip(full_text))
    IN IF cleaned = <<>> THEN Strip(full_text) ELSE cleaned

\* cleaned, for the words of one checkbox (lines 408-414): the trimmed text,
\* or the joined text when trimming leaves nothing or fewer than 10 characters
CleanedText(word_list) ==
    LET full_text == Join(word_list)
        cleaned == CleanWithCategoryLogic(Strip(full_text))
    IN IF cleaned = <<>> \/ Len(cleaned) < 10 THEN Strip(full_text) ELSE cleaned

\* (mutant) the last range that holds text_y wins
FindLastCheckboxForText(text_y, ranges) ==
    LET hits == {i \in DOMAIN ranges : ranges[i].y_top <= text_y /\ text_y <= ranges[i].y_bottom}
    IN IF hits = {} THEN <<>>
       ELSE <<ranges[CHOOSE i \in hits : \A j \in hits : i >= j].checkbox_id>>

\* find_checkbox_for_text(text_y, checkbox_ranges): the checkbox_id of the
\* first range that holds text_y, as <<checkbox_id>>, or <<>> for None
FindCheckboxForText(text_y, ranges) ==
    LET hits == {i \in DOMAIN ranges : ranges[i].y_top <= text_y /\ text_y <= ranges[i].y_bottom}
    IN IF hits = {} THEN <<>>
       ELSE <<ranges[CHOOSE i \in hits : \A j \in hits : i <= j].checkbox_id>>

\* words_by_checkbox[checkbox_id].append(text) on a defaultdict
AppendWord(wbc, checkbox_id, text) ==
    IF checkbox_id \in DOMAIN wbc.items
    THEN [wbc EXCEPT !.items[checkbox_id] = Append(@, text)]
    ELSE [order |-> Append(wbc.order, checkbox_id),
          items |-> wbc.items @@ (checkbox_id :> <<text>>)]

\* the items appended for the checkboxes of the page, from the i-th entry of
\* words_by_checkbox on (lines 405-424)
RECURSIVE ItemsFrom(_, _, _)
ItemsFrom(wbc, ranges, i) ==
    IF i > Len(wbc.order) THEN <<>>
    ELSE LET checkbox_id == wbc.order[i]
             cleaned == CleanedText(wbc.items[checkbox_id])
             cb_range == ranges[checkbox_id + 1]
         IN (IF cleaned # <<>> /\ ~IsJunkFull(cleaned)
             THEN <<[text |-> cleaned, y |-> cb_range.checkbox_y, checkbox_id |-> checkbox_id]>>
             ELSE <<>>)
            \o ItemsFrom(wbc, ranges, i + 1)

----------------------------------------------------------------------------
(* Specification SpecText: the words of one page are assigned to its row    *)
(* bands and turned into items                                              *)

\* words on a page
MaxWords == 3

\* the anchor of the page: words left of AnchorX or above AnchorY are not data
AnchorX == 100

AnchorY == 5

RowRange(i, top, bottom) ==
    [checkbox_id |-> i, checkbox_y |-> (top + bottom) \div 2, y_top |-> top, y_bottom |-> bottom]

\* row bands of a page: apart, overlapping (in both orders), degenerate
RangeLists ==
    { <<RowRange(0, 10, 30)>>,
      <<RowRange(0, 10, 30), RowRange(1, 20, 40)>>,
      <<RowRange(0, 20, 40), RowRange(1, 10, 30)>>,
      <<RowRange(0, 10, 30), RowRange(1, 40, 50)>>,
      <<RowRange(0, 25, 25), RowRange(1, 40, 50)>>,
      <<RowRange(0, 40, 50)>> }

\* the words of a page in the order page.get_text("words") lists them
WordLists ==
    { [i \in DOMAIN pick |-> PageWords[pick[i]]] :
          pick \in { p \in UNION {[1..k -> DOMAIN PageWords] : k \in 0..MaxWords} :
                        \A i, j \in DOMAIN p : i # j => p[i] # p[j] } }

InitText ==
    /\ program = "extract_checkboxes"
    /\ pc = "page"
    /\ service_cols = <<>>
    /\ x_to_service = <<>>
    /\ final_mapping = EmptyGrid
    /\ rows_left = 0
    /\ oil_mapping = EmptyResult
    /\ insp_mapping = EmptyResult
    /\ output_data = Pending
    /\ ordered_mapping = Pending
    /\ text_data = <<>>
    /\ idx = 0
    /\ pass = 0
    /\ first_result = EmptyGrid
    /\ NoCols
    /\ NoPix
    /\ NoRun
    /\ img = <<>>
    /\ checkboxes = <<>>
    /\ cb_i = 0
    /\ checkbox_ranges \in RangeLists
    /\ band_pc = "done"
    /\ words \in WordLists
    /\ word_i = 0
    /\ words_by_checkbox = [order |-> <<>>, items |-> <<>>]
    /\ all_items = <<>>
    /\ text_pc = "words"

\* the words right of and below the anchor are kept (lines 385-393)
CollectWords ==
    /\ text_pc = "words"
    /\ words' = SelectSeq(words, LAMBDA w : ~(w.x < AnchorX \/ w.y < AnchorY))
    /\ text_pc' = "assign"
    /\ UNCHANGED <<word_i, words_by_checkbox, all_items, gridVars, bandVars, colVars, pixVars, runVars>>

\* one iteration of "for word in words" (lines 400-403)
AssignWord ==
    /\ text_pc = "assign"
    /\ word_i < Len(words)
    /\ LET word == words[word_i + 1]
           checkbox_id == FindCheckboxForText(word.y, checkbox_ranges)
       IN words_by_checkbox' =
              IF checkbox_id # <<>> THEN AppendWord(words_by_checkbox, checkbox_id[1], word.text)
              ELSE words_by_checkbox
    /\ word_i' = word_i + 1
    /\ UNCHANGED <<words, all_items, text_pc, gridVars, bandVars, colVars, pixVars, runVars>>

\* the loop over words_by_checkbox (lines 405-424)
ExtractTexts ==
    /\ text_pc = "assign"
    /\ word_i = Len(words)
    /\ all_items' = all_items \o ItemsFrom(words_by_checkbox, checkbox_ranges, 1)
    /\ text_pc' = "done"
    /\ UNCHANGED <<words, word_i, words_by_checkbox, gridVars, bandVars, colVars, pixVars, runVars>>

NextText == CollectWords \/ AssignWord \/ ExtractTexts

SpecText == InitText /\ [][NextText]_vars

----------------------------------------------------------------------------
(* Properties of the row text assembler *)

\* every word would be dropped as a prefix: it starts with neither an
\* uppercase letter nor a digit, or it is a category word
AllDroppable(ws) ==
    \A i \in DOMAIN ws :
        ~(IsUpper(ws[i][1]) \/ IsDigit(ws[i][1])) \/ ws[i] \in CATEGORY_WORDS

ItemsOfCheckbox(id) == {all_items[k] : k \in {n \in DOMAIN all_items : all_items[n].checkbox_id = id}}

\* C17: every band that was given at least one token yields a row text that
\* is not empty; when trimming would remove every word the joined text of
\* the band is kept; a band yields no row only when its text is junk.
C17_RowTextNeverEmpty ==
    text_pc = "done" =>
        \A id \in DOMAIN words_by_checkbox.items :
            LET ws == words_by_checkbox.items[id]
            IN /\ \A it \in ItemsOfCheckbox(id) :
                     /\ it.text # <<>>
                     /\ AllDroppable(ws) => it.text = Join(ws)
               /\ ItemsOfCheckbox(id) = {} => IsJunkFull(Join(ws))

\* C17 witness: a band held two words that trimming would both remove, and
\* its row text is the two words joined.
C17_Witness ==
    /\ text_pc = "done"
    /\ \E id \in DOMAIN words_by_checkbox.items :
          /\ Len(words_by_checkbox.items[id]) = 2
          /\ AllDroppable(words_by_checkbox.items[id])
          /\ \E it \in ItemsOfCheckbox(id) : it.text = Join(words_by_checkbox.items[id])

\* the words in top-to-bottom, left-to-right order
RECURSIVE ReadingOrder(_)
ReadingOrder(S) ==
    IF S = {} THEN <<>>
    ELSE LET w == CHOOSE a \in S : \A b \in S : a.y < b.y \/ (a.y = b.y /\ a.x <= b.x)
         IN <<w>> \o ReadingOrder(S \ {w})

\* the data-region words whose Y lies within the band
WordsInBand(r) ==
    {words[k] : k \in {n \in DOMAIN words : r.y_top <= words[n].y /\ words[n].y <= r.y_bottom}}

\* C18: once the words of the page are assigned, the words of every band are
\* all the data-region tokens whose Y lies within [top_y, bottom_y] of that
\* band, in top-to-bottom, left-to-right order.
C18_RowTextIsBandTokensInOrder ==
    (text_pc \in {"assign", "done"} /\ word_i = Len(words)) =>
        \A i \in DOMAIN checkbox_ranges :
            LET r == checkbox_ranges[i]
            IN WordsInBand(r) # {} =>
                  /\ r.checkbox_id \in DOMAIN words_by_checkbox.items
                  /\ words_by_checkbox.items[r.checkbox_id] = TextsOf(ReadingOrder(WordsInBand(r)))

----------------------------------------------------------------------------
(* Intersection resolver: check_gray_bullet_at_intersection. The rendered   *)
(* page is held as the set of its pixels that are not white; X and Y of the *)
(* intersection are in quarter PDF units, as in the row-band resolver.      *)

\* x_range = 10, y_range = 10
Range == 10

\* gray_pixel_count >= 5
MinGrayPixels == 5

\* (mutant) the channels are only tested against 116..156
IsInGrayRange(rgb) ==
    /\ 116 <= rgb[1] /\ rgb[1] <= 156
    /\ 116 <= rgb[2] /\ rgb[2] <= 156
    /\ 116 <= rgb[3] /\ rgb[3] <= 156

\* the two tests on r, g, b (lines 476-477)
IsBulletGray(rgb) ==
    /\ 116 <= rgb[1] /\ rgb[1] <= 156
    /\ 116 <= rgb[2] /\ rgb[2] <= 156
    /\ 116 <= rgb[3] /\ rgb[3] <= 156
    /\ Abs(rgb[1] - rgb[2]) < 20
    /\ Abs(rgb[2] - rgb[3]) < 20
    /\ Abs(rgb[1] - rgb[3]) < 20

\* check_gray_bullet_at_intersection(pdf_path, x, y, page_num) on a raster of
\* img_width x img_height pixels
CheckGrayBulletAtIntersection(image, img_width, img_height, x, y) ==
    LET pixel_x == PixelY(x)
        pixel_y == PixelY(y)
        rows == Max(0, pixel_y - Range)..(Min(img_height, pixel_y + Range + 1) - 1)
        columns == Max(0, pixel_x - Range)..(Min(img_width, pixel_x + Range + 1) - 1)
        gray_pixel_count ==
            Cardinality({p \in image : p.py \in rows /\ p.px \in columns /\ IsBulletGray(p.rgb)})
    IN gray_pixel_count >= MinGrayPixels

----------------------------------------------------------------------------
(* Specification SpecPix: one call of check_gray_bullet_at_intersection *)

\* width and height of the rendered page, in pixels
PixWidth == 80

PixHeight == 80

\* colours of a glyph: inside the gray band, at and past its ends, and with
\* channels that differ
GlyphColours ==
    { <<136, 136, 136>>, <<116, 116, 116>>, <<156, 156, 156>>, <<115, 115, 115>>,
      <<157, 157, 157>>, <<116, 136, 156>>, <<120, 139, 130>>, <<120, 140, 130>> }

\* a glyph: n pixels of one colour in a row that starts dx, dy pixels from
\* the pixel (cx, cy); pixels that would fall off the raster do not exist
Glyph(cx, cy, dx, dy, n, rgb) ==
    { [px |-> cx + dx + k, py |-> cy + dy, rgb |-> rgb] :
          k \in {j \in 0..(n - 1) : (cx + dx + j) \in 0..(PixWidth - 1)
                                    /\ (cy + dy) \in 0..(PixHeight - 1)} }

\* intersections: near the corner of the page, in its middle, and between
\* two raster pixels
Intersections == { <<8, 8>>, <<80, 80>>, <<81, 83>> }

InitPix ==
    /\ NoGrid
    /\ NoBand
    /\ NoCols
    /\ NoText
    /\ NoRun
    /\ pix_xy \in Intersections
    /\ \E dx \in {0 - 10, 0 - 11, 0, 6, 7, 11, 16} : \E dy \in {0 - 10, 0, 10, 11, 16} :
          \E n \in {4, 5, 6} : \E rgb \in GlyphColours :
              pix_img = Glyph(PixelY(pix_xy[1]), PixelY(pix_xy[2]), dx, dy, n, rgb)
    /\ bullet_found = FALSE
    /\ pix_pc = "check"

\* has_bullet = check_gray_bullet_at_intersection(...)
CheckBullet ==
    /\ pix_pc = "check"
    /\ bullet_found' =
          CheckGrayBulletAtIntersection(pix_img, PixWidth, PixHeight, pix_xy[1], pix_xy[2])
    /\ pix_pc' = "done"
    /\ UNCHANGED <<pix_img, pix_xy, gridVars, bandVars, colVars, textVars, runVars>>

SpecPix == InitPix /\ [][CheckBullet]_vars

----------------------------------------------------------------------------
(* Properties of the intersection resolver *)

\* a mid-gray pixel: every channel in 116..156, the channels less than 20
\* apart
MidGray(rgb) ==
    /\ \A i \in 1..3 : rgb[i] \in 116..156
    /\ \A i, j \in 1..3 : rgb[i] - rgb[j] < 20

\* the mid-gray pixels of the raster at most d pixels from the intersection
\* pixel in X and in Y
MidGrayWithin(d) ==
    {p \in pix_img : /\ Abs(p.px - PixelY(pix_xy[1])) <= d
                     /\ Abs(p.py - PixelY(pix_xy[2])) <= d
                     /\ MidGray(p.rgb)}

\* C19 (as stated): the row is marked for the model column exactly when at
\* least 5 mid-gray pixels lie in the window of +/-10 PDF units around the
\* intersection, which is +/-20 raster pixels at zoom 2.
C19_WindowOfTenPdfUnits ==
    pix_pc = "done" => (bullet_found <=> Cardinality(MidGrayWithin(10 * Zoom)) >= 5)

\* C19 (amended): the row is marked for the model column exactly when at
\* least 5 mid-gray pixels lie in the window of +/-10 raster pixels (5 PDF
\* units at zoom 2), clipped to the raster, around the intersection pixel.
C19_WindowOfTenPixels ==
    pix_pc = "done" => (bullet_found <=> Cardinality(MidGrayWithin(10)) >= 5)

\* C19 witness: a bullet was found for a glyph of which exactly 5 mid-gray
\* pixels are inside the window and one is outside it.
C19_Witness ==
    /\ pix_pc = "done"
    /\ bullet_found
    /\ Cardinality(MidGrayWithin(10)) = 5
    /\ Cardinality(pix_img) = 6

----------------------------------------------------------------------------
(* Failure semantics of the extraction *)

\* C20: for well-formed documents the extraction of a model directory always
\* yields a grid, possibly an empty one: it never reports failure (None),
\* whatever structure the documents lack.
C20_AlwaysYieldsAGrid == output_data.status # None

----------------------------------------------------------------------------
(* Specification SpecFiles: the two documents of a model directory, each   *)
(* of which may raise while it is read (fitz.open on an unreadable file,   *)
(* or any later exception of the extraction)                               *)

\* an exception is raised while the current document is processed.
\* extract_from_single_pdf catches it, prints the file name and returns None
\* (step2_extract_pdf.py lines 82-86), and extract_treatments_from_pdfs goes
\* on with the next document; main() of TreatmentExtractorFromPDF.py has no
\* handler, so the exception leaves the program (lines 715-724)
RaiseInDocument ==
    /\ pc \in {"oil", "inspection"}
    /\ unreadable' = unreadable \cup {pc}
    /\ IF program = "step2"
       THEN /\ final_mapping' = EmptyGrid
            /\ oil_mapping' = IF pc = "oil" THEN EmptyResult ELSE oil_mapping
            /\ insp_mapping' = IF pc = "inspection" THEN EmptyResult ELSE insp_mapping
            /\ pc' = IF pc = "oil" THEN "inspection" ELSE "combine"
       ELSE /\ pc' = "raised"
            /\ UNCHANGED <<final_mapping, oil_mapping, insp_mapping>>
    /\ UNCHANGED <<program, service_cols, x_to_service, rows_left, output_data,
                   ordered_mapping, text_data, idx, pass, first_result,
                   bandVars, colVars, textVars, pixVars,
                   scanVars, trimVars, pipeVars, webVars>>

NextFiles == Next \/ RaiseInDocument

SpecFiles == Init /\ [][NextFiles]_vars

\* C21: a document that cannot be read is a fatal error that reaches the
\* caller: a run in which a document raised never hands a grid back
C21_UnreadableIsFatal ==
    unreadable # {} =>
        /\ output_data.status # "ok"
        /\ ordered_mapping.status # "ok"

----------------------------------------------------------------------------
(* Specification SpecNear: one document whose items lie at any distance    *)
(* from the service columns, fed to the mapping loop                       *)

\* checkbox X of the items: on a column, between the columns, 19 and 20
\* units outside the outer columns
NearXs == {380, 381, 400, 415, 419, 430, 450}

NearItemsOf(cols) ==
    [text : Lines, x : NearXs, bullets : {{}, SeqToSet(model_x_positions)}]

InitNear ==
    /\ program = "map_services"
    /\ pc = "rows"
    /\ service_cols \in Layouts
    /\ x_to_service = XToService(service_cols)
    /\ text_data \in SeqsUpTo(NearItemsOf(service_cols), MaxItems)
    /\ idx = 0
    /\ pass = 1
    /\ final_mapping = EmptyGrid
    /\ first_result = EmptyGrid
    /\ rows_left = 0
    /\ oil_mapping = EmptyResult
    /\ insp_mapping = EmptyResult
    /\ output_data = Pending
    /\ ordered_mapping = Pending
    /\ NoBand
    /\ NoCols
    /\ NoText
    /\ NoPix
    /\ NoRun

SpecNear == InitNear /\ [][MapNext]_vars

\* the service columns nearest to an X
NearestColumns(item_x) ==
    {c \in DOMAIN service_cols :
        \A d \in DOMAIN service_cols : Abs(item_x - c) <= Abs(item_x - d)}

\* the key a row is entitled to: that of its nearest column (the leftmost
\* one when two are equally near) when that column is less than 20 units
\* away, none when the distance reaches 20
KeyOfRow(i) ==
    LET near == NearestColumns(text_data[i].x)
        c == CHOOSE a \in near : \A b \in near : a <= b
    IN IF near # {} /\ Abs(text_data[i].x - c) < 20
       THEN XToServiceGet(x_to_service, c)
       ELSE None

\* C22: every cell of the grid holds exactly the lines of the processed rows
\* whose nearest service column, less than 20 units away, carries the cell's
\* key and that have a bullet under the cell's model; a row 20 units or more
\* from every service column contributes nothing
C22_NearestColumnWithinThreshold ==
    \A k \in SeqToSet(SERVICE_ORDER), mx \in SeqToSet(model_x_positions) :
        SeqToSet(Cell(final_mapping, k, model_cols[mx]))
            = {text_data[i].text :
                  i \in {j \in 1..idx : KeyOfRow(j) = k /\ mx \in text_data[j].bullets}}

\* a row 19 units from its column was mapped, a row 20 units away with
\* bullets was not
C22_Witness ==
    /\ idx = 2
    /\ Len(text_data) = 2
    /\ text_data[1].x = 419 /\ text_data[1].bullets # {}
    /\ text_data[2].x = 380 /\ text_data[2].bullets # {}
    /\ text_data[1].text # text_data[2].text
    /\ \E k \in DOMAIN final_mapping.items :
          InList(text_data[1].text, Cell(final_mapping, k, model_cols[340]))
    /\ \A k \in DOMAIN final_mapping.items :
          \A m \in DOMAIN final_mapping.items[k] :
              ~InList(text_data[2].text, final_mapping.items[k][m])

----------------------------------------------------------------------------
(* Names of the model columns (specification SpecCols) *)

\* the spans get_model_name_for_x accepts as part of a column's name
IsHeaderToken(item) ==
    /\ item.y < MeasuresY
    /\ ~IsRealDate(item.text)
    /\ item.text \notin LabelStopWords
    /\ Len(item.text) >= 2

\* C23: every model column returned by the model-column finder is named
\* after at least one real header token of the page, each word of the name
\* being such a token less than 10 units from the column, and never with
\* the placeholder 'Model Column <x>'
C23_ModelNamesFromHeaderTokens ==
    col_pc \in {"keys", "done"} =>
        /\ DOMAIN model_names = SeqToSet(final_x_positions)
        /\ \A model_x \in DOMAIN model_names :
              LET name_words == Split(model_names[model_x])
              IN /\ model_names[model_x] # ModelColumnPlaceholder(model_x)
                 /\ name_words # <<>>
                 /\ \A w \in DOMAIN name_words :
                       \E i \in DOMAIN all_text :
                           /\ all_text[i].text = name_words[w]
                           /\ IsHeaderToken(all_text[i])
                           /\ Abs(all_text[i].x - model_x) < Units(10)

\* a column found from the two-character label 4S alone has been named
C23_Witness ==
    /\ col_pc = "done"
    /\ Units(380) \in DOMAIN model_names
    /\ model_names[Units(380)] = <<"4", "S">>

----------------------------------------------------------------------------
(* Specification SpecScan: one call of find_background_boundary_v3, one    *)
(* iteration of its loop at a time                                         *)

\* columns scanned: the hand-made ones, and one or two generated runs
ScanPages ==
    {[segs |-> s, spots |-> SpotsOf(s)] :
        s \in {g \in UNION {[1..k -> SegKinds] : k \in 1..2} :
                  \A i \in 1..(Len(g) - 1) : g[i].c # g[i + 1].c}}
        \cup {[segs |-> Scenario1(Gray), spots |-> {159}],
              [segs |-> Scenario1Framed, spots |-> {91}],
              [segs |-> TwoRows, spots |-> {44, 88}]}

InitScan ==
    /\ NoGrid
    /\ NoBand
    /\ NoCols
    /\ NoText
    /\ NoPix
    /\ NoFiles /\ NoTrim /\ NoPipe /\ NoWeb
    /\ \E page \in ScanPages :
          /\ scan_image = page.segs
          /\ scan_start \in page.spots
    /\ scan_dir \in {"up", "down"}
    /\ scan_py = scan_start
    /\ scan_stage = 0
    /\ scan_pc = "scanning"

\* end of the scanned range (lines 239-246)
ScanEnd ==
    IF scan_dir = "up" THEN Max(0, scan_start - ScanBudget)
    ELSE Min(Len(Expand(scan_image)), scan_start + ScanBudget)

\* the condition of the while loop (line 255)
ScanGoesOn ==
    (scan_dir = "up" /\ scan_py >= ScanEnd) \/ (scan_dir = "down" /\ scan_py <= ScanEnd)

\* one iteration of the loop: the pixel at py is read and tested against the
\* stage; then the boundary is returned, or py moves on (lines 256-272)
ScanIteration ==
    /\ scan_pc = "scanning"
    /\ ScanGoesOn
    /\ \E r \in {ScanStep(Expand(scan_image),
                          [tag |-> "scanning", stage |-> scan_stage, py |-> scan_py],
                          scan_py)} :
          /\ scan_stage' = r.stage
          /\ scan_pc' = r.tag
          /\ scan_py' = IF r.tag = "scanning"
                        THEN (IF scan_dir = "up" THEN scan_py - 1 ELSE scan_py + 1)
                        ELSE scan_py
    /\ UNCHANGED <<scan_image, scan_start, scan_dir, gridVars, bandVars, colVars, textVars,
                   pixVars, fileVars, trimVars, pipeVars, webVars>>

\* the loop ends without a boundary: None is returned (lines 255, 274)
ScanReturnNone ==
    /\ scan_pc = "scanning"
    /\ ~ScanGoesOn
    /\ scan_pc' = "none"
    /\ UNCHANGED <<scan_image, scan_start, scan_dir, scan_stage, scan_py,
                   gridVars, bandVars, colVars, textVars,
                   pixVars, fileVars, trimVars, pipeVars, webVars>>

NextScan == ScanIteration \/ ScanReturnNone

SpecScan == InitScan /\ [][NextScan]_vars

\* the rows read so far, in the order they were read
RowsRead ==
    LET n == Abs(scan_py - scan_start) + (IF scan_pc = "pixel" THEN 1 ELSE 0)
    IN [k \in 1..n |-> IF scan_dir = "up" THEN scan_start - (k - 1) ELSE scan_start + (k - 1)]

\* their intensities
AvgRead ==
    CHOOSE avg \in {[k \in DOMAIN RowsRead |-> RgbAvg(image[RowsRead[k] + 1])] :
                       image \in {Expand(scan_image)}} : TRUE

\* position in avg of the first intensity after position from that passes
\* the test (0 when there is none)
FirstAfter(avg, from, Test(_)) ==
    LET hits == {k \in DOMAIN avg : k > from /\ Test(avg[k])}
    IN IF hits = {} THEN 0 ELSE CHOOSE k \in hits : \A j \in hits : k <= j

\* positions, among the rows read, of the first pixel below 240, of the first
\* later pixel of 200 or more, and of the first pixel below 200 after that
Landmarks ==
    CHOOSE m \in
        {[white |-> w, background |-> b,
          boundary |-> IF b = 0 THEN 0
                       ELSE FirstAfter(avg, b, LAMBDA a : a < BackgroundThreshold)] :
            avg \in {AvgRead},
            w \in {FirstAfter(AvgRead, 0, LAMBDA a : a < WhiteThreshold)},
            b \in {IF FirstAfter(AvgRead, 0, LAMBDA a : a < WhiteThreshold) = 0 THEN 0
                   ELSE FirstAfter(AvgRead, FirstAfter(AvgRead, 0, LAMBDA a : a < WhiteThreshold),
                                   LAMBDA a : a >= BackgroundThreshold)}} : TRUE

StageFollowsPixels ==
    \A m \in {Landmarks} :
        /\ scan_stage = (IF m.white = 0 THEN 0 ELSE IF m.background = 0 THEN 1 ELSE 2)
        /\ scan_pc = "pixel" <=> m.boundary # 0
        /\ scan_pc = "pixel" =>
              /\ scan_stage = 2
              /\ RowsRead[m.boundary] = scan_py
              /\ m.boundary = Len(RowsRead)
              /\ AvgRead[m.boundary] < BackgroundThreshold

StageOnlyAdvances == scan_stage' \in {scan_stage, scan_stage + 1}

\* C24: the scan is a three-stage machine whose stage only advances, one
\* stage at a time: it leaves stage 0 at the first pixel read with intensity
\* below 240, enters stage 2 at the first later pixel of 200 or more, and
\* reports the first pixel after that below 200; nothing is reported in
\* stage 0 or 1, and the reported pixel has intensity below 200
C24_ThreeStageScan == [](StageFollowsPixels) /\ [][StageOnlyAdvances]_vars

\* a downward scan went through the three stages and reported a boundary
C24_Witness ==
    /\ scan_pc = "pixel"
    /\ scan_dir = "down"
    /\ scan_stage = 2
    /\ 0 < Landmarks.white
    /\ Landmarks.white + 1 < Landmarks.background
    /\ Landmarks.background + 1 < Landmarks.boundary

\* C26: the scan reads only rows 0 .. image_height - 1 and ends normally,
\* with a boundary row inside the raster or with no boundary
C26_ScanStaysInsideRaster ==
    /\ scan_pc # "IndexError"
    /\ \A k \in DOMAIN RowsRead : RowsRead[k] \in 0..(Len(Expand(scan_image)) - 1)
    /\ scan_pc = "pixel" => scan_py \in 0..(Len(Expand(scan_image)) - 1)

----------------------------------------------------------------------------
(* Specification SpecTrim: clean_with_category_logic on a text, and again  *)
(* on its own result                                                       *)

\* words a text is made of: category words (capitalised, not, and a digit), a
\* lower-case word, a word in brackets, and words that start a treatment line
TrimVocabulary ==
    { <<"E", "l", "e", "c", "t", "r", "i", "c", "s">>,
      <<"t", "h", "e">>,
      <<"e", "n", "g", "i", "n", "e">>,
      <<"(", "o", "i", "l", ")">>,
      <<"F", "i", "l", "l">>,
      <<"2">>,
      <<"4", "S">> }

InitTrim ==
    /\ NoGrid
    /\ NoBand
    /\ NoCols
    /\ NoText
    /\ NoPix
    /\ NoFiles /\ NoScan /\ NoPipe /\ NoWeb
    /\ trim_words \in SeqsUpTo(TrimVocabulary, MaxWords)
    /\ trim_once = <<>>
    /\ trim_twice = <<>>
    /\ trim_pc = "input"

\* cleaned = clean_with_category_logic(text) (lines 30-46)
Clean ==
    /\ trim_pc = "input"
    /\ trim_once' = CleanWithCategoryLogic(Join(trim_words))
    /\ trim_pc' = "cleaned"
    /\ UNCHANGED <<trim_words, trim_twice, gridVars, bandVars, colVars, textVars, pixVars,
                   fileVars, scanVars, pipeVars, webVars>>

\* the result is cleaned a second time
CleanAgain ==
    /\ trim_pc = "cleaned"
    /\ trim_twice' = CleanWithCategoryLogic(trim_once)
    /\ trim_pc' = "again"
    /\ UNCHANGED <<trim_words, trim_once, gridVars, bandVars, colVars, textVars, pixVars,
                   fileVars, scanVars, pipeVars, webVars>>

NextTrim == Clean \/ CleanAgain

SpecTrim == InitTrim /\ [][NextTrim]_vars

\* a word that may start a treatment line: it begins with an uppercase letter
\* or a digit and is not in the category vocabulary
StartsLine(w) ==
    /\ w # <<>>
    /\ IsUpper(w[1]) \/ IsDigit(w[1])
    /\ w \notin CATEGORY_WORDS

\* number of leading words the trimming dropped
Dropped == Len(trim_words) - Len(Split(trim_once))

\* C25: the trimmed text is a suffix of the input's words; it is empty or
\* starts with a word that begins with an uppercase letter or a digit and is
\* not a category word; every dropped leading word fails one of these two
\* conditions; and trimming the result again changes nothing
C25_TrimDropsOnlyPrefix ==
    /\ trim_pc \in {"cleaned", "again"} =>
          /\ Dropped >= 0
          /\ Split(trim_once) = SubSeq(trim_words, Dropped + 1, Len(trim_words))
          /\ trim_once = <<>> \/ StartsLine(Split(trim_once)[1])
          /\ \A k \in 1..Dropped : ~StartsLine(trim_words[k])
    /\ trim_pc = "again" => trim_twice = trim_once

\* a lower-case word and a capitalised category word were dropped in front of
\* a treatment line, and the result was trimmed again
C25_Witness ==
    /\ trim_pc = "again"
    /\ Dropped = 2
    /\ trim_once # <<>>
    /\ \E k \in 1..2 : trim_words[k] \in CATEGORY_WORDS /\ IsUpper(trim_words[k][1])
    /\ \E k \in 1..2 : ~IsUpper(trim_words[k][1]) /\ trim_words[k] \notin CATEGORY_WORDS

----------------------------------------------------------------------------
(* Attribution of tokens to checkboxes, and the emitted row text            *)
(* (specification SpecText)                                                 *)

\* positions in checkbox_ranges of the bands that hold a Y
BandsHolding(text_y) ==
    {i \in DOMAIN checkbox_ranges :
        checkbox_ranges[i].y_top <= text_y /\ text_y <= checkbox_ranges[i].y_bottom}

\* the token at position k of words belongs to the band at position i: the
\* first band, in the order of checkbox_ranges, that holds its Y
BelongsTo(k, i) ==
    /\ i \in BandsHolding(words[k].y)
    /\ \A j \in BandsHolding(words[k].y) : i <= j

\* C27: every data-region token is attributed to at most one checkbox, the
\* first in enumeration order whose band holds the token's Y: the words of a
\* checkbox are exactly those tokens, in the order of the page's word list.
\* When the bands of two checkboxes hold the same tokens, the later checkbox
\* gets none of them and produces no item.
C27_TokenGoesToFirstBand ==
    text_pc \in {"assign", "done"} =>
        /\ \A i \in DOMAIN checkbox_ranges :
              LET id == checkbox_ranges[i].checkbox_id
                  mine == SelectSeq([k \in 1..word_i |-> k], LAMBDA k : BelongsTo(k, i))
              IN IF mine = <<>> THEN id \notin DOMAIN words_by_checkbox.items
                 ELSE /\ id \in DOMAIN words_by_checkbox.items
                      /\ words_by_checkbox.items[id] = [n \in DOMAIN mine |-> words[mine[n]].text]
        /\ text_pc = "done" =>
              \A i, j \in DOMAIN checkbox_ranges :
                  (i < j /\ WordsInBand(checkbox_ranges[i]) # {}
                         /\ WordsInBand(checkbox_ranges[i]) = WordsInBand(checkbox_ranges[j]))
                  => /\ ItemsOfCheckbox(checkbox_ranges[j].checkbox_id) = {}
                     /\ \A it \in ItemsOfCheckbox(checkbox_ranges[i].checkbox_id) :
                           it.text = CleanedText(TextsOf(SelectSeq(words,
                                         LAMBDA w : w \in WordsInBand(checkbox_ranges[i]))))

\* two overlapping bands hold the same two tokens; the earlier checkbox has
\* produced an item, the later one none
C27_Witness ==
    /\ text_pc = "done"
    /\ Len(checkbox_ranges) = 2
    /\ Cardinality(WordsInBand(checkbox_ranges[1])) = 2
    /\ WordsInBand(checkbox_ranges[1]) = WordsInBand(checkbox_ranges[2])
    /\ ItemsOfCheckbox(checkbox_ranges[1].checkbox_id) # {}
    /\ ItemsOfCheckbox(checkbox_ranges[2].checkbox_id) = {}

\* the joined text of a checkbox's words, and what trimming leaves of it
FullText(id) == Strip(Join(words_by_checkbox.items[id]))

TrimmedText(id) == CleanWithCategoryLogic(FullText(id))

\* C28: the text emitted for a row is the prefix-trimmed text when that has
\* at least 10 characters, and the untrimmed joined text whenever the trimmed
\* text is empty or shorter than 10 characters
C28_TrimmedTextOnlyFromTenCharacters ==
    text_pc = "done" =>
        \A n \in DOMAIN all_items :
            LET id == all_items[n].checkbox_id
            IN /\ Len(TrimmedText(id)) >= 10 => all_items[n].text = TrimmedText(id)
               /\ Len(TrimmedText(id)) < 10 => all_items[n].text = FullText(id)

\* trimming left a text that is not empty but shorter than 10 characters, and
\* the longer joined text was emitted
C28_Witness ==
    /\ text_pc = "done"
    /\ \E n \in DOMAIN all_items :
          LET id == all_items[n].checkbox_id
          IN /\ TrimmedText(id) # <<>>
             /\ Len(TrimmedText(id)) < 10
             /\ TrimmedText(id) # FullText(id)
             /\ all_items[n].text = FullText(id)

----------------------------------------------------------------------------
(* Specification SpecPipe: TreatmentWizard.run_pipeline on one VIN, run    *)
(* fresh and then run again without force over the files the first run     *)
(* left below the model directory. Dicts are held as their keys in         *)
(* insertion order and a function from the keys; every key is a sequence   *)
(* of characters.                                                          *)

KModel == <<"m", "o", "d", "e", "l">>

KOilCapacity == <<"o", "i", "l", "_", "c", "a", "p", "a", "c", "i", "t", "y">>

KMatchedParts == <<"m", "a", "t", "c", "h", "e", "d", "_", "p", "a", "r", "t", "s">>

KTkm == <<"t", "k", "m">>

KTimeDependentHyphen == <<"t", "i", "m", "e", "-", "d", "e", "p", "e", "n", "d", "e", "n", "t">>

KTimeDependentSpace == <<"t", "i", "m", "e", " ", "d", "e", "p", "e", "n", "d", "e", "n", "t">>

EmptyDict == [order |-> <<>>, items |-> <<>>]

\* d[key] = value on a dict
DictSet(d, key, value) ==
    IF key \in DOMAIN d.items
    THEN [order |-> d.order, items |-> [k \in DOMAIN d.items |-> IF k = key THEN value ELSE d.items[k]]]
    ELSE [order |-> Append(d.order, key), items |-> d.items @@ (key :> value)]

\* normalized model names the items of the classified services may carry,
\* in sorted order, and the description step 1 decodes from the VIN
ModelNamePool == <<"Cayenne", "Cayenne S">>

model_desc == "Cayenne"

\* string.ascii_uppercase, as far as it is needed
Letters == <<<<"A">>, <<"B">>>>

\* headers of the classified services, in the order of the interval
ServiceHeaders == <<Hdr15, Hdr240, HdrTime>>

\* classified data: for some headers, the model names its items carry (none
\* when the items have no model_name)
ClassifiedData ==
    UNION {[hs -> SUBSET SeqToSet(ModelNamePool)] : hs \in SUBSET SeqToSet(ServiceHeaders)}

\* int(digits)
RECURSIVE ToInt(_)
ToInt(digits) ==
    IF digits = <<>> THEN 0
    ELSE LET d == digits[Len(digits)]
             v == CHOOSE n \in 0..9 : Digits(n) = <<d>>
         IN ToInt(SubSeq(digits, 1, Len(digits) - 1)) * 10 + v

\* re.search(r'(\d+)\s*tkm', key.lower()): the leftmost run of digits that is
\* followed, after any spaces, by tkm; <<>> without a match, else <<km>>
\* (step6_create_service_baskets.py lines 19-24)
ExtractKmFromKey(key) ==
    LET low == Lower(key)
        RunEnd(i) == CHOOSE e \in i..Len(low) :
                        /\ \A k \in i..e : IsDigit(low[k])
                        /\ (e = Len(low) \/ ~IsDigit(low[e + 1]))
        AfterSpaces(e) == CHOOSE p \in (e + 1)..(Len(low) + 1) :
                             /\ \A k \in (e + 1)..(p - 1) : low[k] = " "
                             /\ (p = Len(low) + 1 \/ low[p] # " ")
        Matches(i) == LET p == AfterSpaces(RunEnd(i))
                      IN p + 2 <= Len(low) /\ SubSeq(low, p, p + 2) = KTkm
        starts == {i \in DOMAIN low :
                      /\ IsDigit(low[i])
                      /\ (i = 1 \/ ~IsDigit(low[i - 1]))
                      /\ Matches(i)}
    IN IF starts = {} THEN <<>>
       ELSE LET i == CHOOSE a \in starts : \A b \in starts : a <= b
            IN <<ToInt(SubSeq(low, i, RunEnd(i))) * 1000>>

\* is_time_dependent(key) (lines 26-29)
IsTimeDependent(key) ==
    Contains(Lower(key), KTimeDependentHyphen) \/ Contains(Lower(key), KTimeDependentSpace)

\* the service_output of one header (step5_match_parts.py lines 728-732)
ServiceOutput(model_name, header) ==
    [order |-> <<KModel, KOilCapacity, KMatchedParts>>,
     items |-> (KModel :> model_name) @@ (KOilCapacity :> "capacity")
                   @@ (KMatchedParts :> <<header>>)]

\* match_parts_to_services(classified, pet_data, model): None without a
\* services key is not modelled; one service_output per header that has
\* items, sorted by interval with the time-dependent header last
\* (step5_match_parts.py lines 685-807)
MatchPartsToServices(headers, model_name) ==
    LET order == SelectSeq(ServiceHeaders, LAMBDA h : h \in headers)
    IN [order |-> order,
        items |-> [h \in headers |-> ServiceOutput(model_name, h)]]

\* create_service_baskets(service_lines_data): None for an empty dict and
\* when no key names an interval in tkm; otherwise model and oil_capacity of
\* the first interval, then a basket per interval
\* (step6_create_service_baskets.py lines 62-172)
CreateServiceBasketsFrom(data, km_of) ==
    LET km_keys == {k \in DOMAIN data.items : km_of[k] # <<>> /\ km_of[k][1] # 0}
        kms == {km_of[k][1] : k \in km_keys}
        KeyOf(km) == LET ks == {i \in DOMAIN data.order :
                                    data.order[i] \in km_keys
                                    /\ km_of[data.order[i]][1] = km}
                     IN data.order[CHOOSE i \in ks : \A j \in ks : i >= j]
        timed == {k \in DOMAIN data.items : k \notin km_keys /\ IsTimeDependent(k)}
        sorted_km_list == SortedSeq(kms)
        base_service == data.items[KeyOf(sorted_km_list[1])]
        Basket(target_km) ==
            [service_number |-> target_km \div 15000,
             mileage_km |-> target_km,
             parts_of |-> {KeyOf(km) : km \in {m \in kms : target_km % m = 0}}
                             \cup (IF (target_km \div 15000) % 2 = 0 THEN timed ELSE {})]
    IN IF data.order = <<>> \/ km_keys = {} THEN [ok |-> FALSE]
       ELSE [ok |-> TRUE,
             order |-> <<KModel, KOilCapacity>>
                          \o [i \in DOMAIN sorted_km_list |-> Digits(sorted_km_list[i])],
             items |-> (KModel :> base_service.items[KModel])
                          @@ (KOilCapacity :> base_service.items[KOilCapacity])
                          @@ [k \in {Digits(km) : km \in kms} |->
                                 Basket(CHOOSE km \in kms : Digits(km) = k)]]

\* the loop over service_lines_data.items() reads the interval of every key
\* once (lines 90-96)
CreateServiceBaskets(data) ==
    CreateServiceBasketsFrom(data, [k \in DOMAIN data.items |-> ExtractKmFromKey(k)])

\* nothing is cached below the model directory
EmptyDisk ==
    [pdf_output |-> FALSE, classified_output |-> FALSE, pet_output |-> FALSE,
     service_lines_output |-> <<>>, service_lines_by_id |-> <<>>,
     baskets_output |-> <<>>, hebrew_output |-> {}]

InitPipe ==
    /\ NoGrid
    /\ NoBand
    /\ NoCols
    /\ NoText
    /\ NoPix
    /\ NoFiles /\ NoScan /\ NoTrim /\ NoWeb
    /\ classified_data \in ClassifiedData
    /\ disk = EmptyDisk
    /\ force \in BOOLEAN
    /\ pipe_pc = "step2"
    /\ service_lines_data = EmptyDict
    /\ baskets_data_map = EmptyDict
    /\ first_run = <<>>

PipeOthers == <<gridVars, bandVars, colVars, textVars, pixVars, fileVars, scanVars, trimVars, webVars>>

\* STEP 2 (main.py lines 108-125): the output is loaded when it is cached and
\* force is off, and is otherwise computed, which may fail, and written
Step2ExtractPdfs ==
    /\ pipe_pc = "step2"
    /\ IF disk.pdf_output /\ ~force
       THEN /\ pipe_pc' = "step3"
            /\ UNCHANGED disk
       ELSE \E computed \in BOOLEAN :
               IF computed
               THEN /\ disk' = [disk EXCEPT !.pdf_output = TRUE]
                    /\ pipe_pc' = "step3"
               ELSE /\ pipe_pc' = "failed"
                    /\ UNCHANGED disk
    /\ UNCHANGED <<classified_data, force, service_lines_data, baskets_data_map, first_run,
                   PipeOthers>>

\* STEP 3 (main.py lines 132-149): the output is loaded when it is cached and
\* force is off, and is otherwise computed, which may fail, and written
Step3Classify ==
    /\ pipe_pc = "step3"
    /\ IF disk.classified_output /\ ~force
       THEN /\ pipe_pc' = "step4"
            /\ UNCHANGED disk
       ELSE \E computed \in BOOLEAN :
               IF computed
               THEN /\ disk' = [disk EXCEPT !.classified_output = TRUE]
                    /\ pipe_pc' = "step4"
               ELSE /\ pipe_pc' = "failed"
                    /\ UNCHANGED disk
    /\ UNCHANGED <<classified_data, force, service_lines_data, baskets_data_map, first_run,
                   PipeOthers>>

\* STEP 4 (main.py lines 156-173): the output is loaded when it is cached and
\* force is off, and is otherwise computed, which may fail, and written
Step4ExtractPet ==
    /\ pipe_pc = "step4"
    /\ IF disk.pet_output /\ ~force
       THEN /\ pipe_pc' = "step5"
            /\ UNCHANGED disk
       ELSE \E computed \in BOOLEAN :
               IF computed
               THEN /\ disk' = [disk EXCEPT !.pet_output = TRUE]
                    /\ pipe_pc' = "step5"
               ELSE /\ pipe_pc' = "failed"
                    /\ UNCHANGED disk
    /\ UNCHANGED <<classified_data, force, service_lines_data, baskets_data_map, first_run,
                   PipeOthers>>

\* model_names: the names found in the items of the classified services
\* (lines 185-192)
ModelNamesOf(classified) == UNION {classified[h] : h \in DOMAIN classified}

\* the loop of the multi-model branch over model_id_map, from the i-th of the
\* sorted names: the results so far and the files written (lines 229-258)
RECURSIVE MatchEachModel(_, _, _, _)
MatchEachModel(classified, names, i, acc) ==
    IF i > Len(names) THEN acc
    ELSE LET model_id == Letters[i]
             headers == {h \in DOMAIN classified : names[i] \in classified[h]}
             result == MatchPartsToServices(headers, names[i])
         IN IF result.order = <<>>
            THEN MatchEachModel(classified, names, i + 1, acc)
            ELSE MatchEachModel(classified, names, i + 1,
                     [files |-> DictSet(acc.files, model_id, result),
                      data |-> DictSet(acc.data, model_id, result)])

\* STEP 5 (lines 194-258): with fewer than two model names the cached file is
\* loaded as service_lines_data, or the result is computed, written and
\* stored under 'A'; with two or more, every model is matched and stored
\* under its letter
Step5MatchParts ==
    /\ pipe_pc = "step5"
    /\ IF Cardinality(ModelNamesOf(classified_data)) < 2
       THEN IF disk.service_lines_output # <<>> /\ ~force
            THEN /\ service_lines_data' = disk.service_lines_output[1]
                 /\ pipe_pc' = "step6"
                 /\ UNCHANGED disk
            ELSE LET result == MatchPartsToServices(DOMAIN classified_data, model_desc)
                 IN IF result.order = <<>>
                    THEN /\ pipe_pc' = "failed"
                         /\ UNCHANGED <<disk, service_lines_data>>
                    ELSE /\ disk' = [disk EXCEPT !.service_lines_output = <<result>>]
                         /\ service_lines_data' = DictSet(EmptyDict, Letters[1], result)
                         /\ pipe_pc' = "step6"
       ELSE LET names == SelectSeq(ModelNamePool,
                                   LAMBDA n : n \in ModelNamesOf(classified_data))
                done == MatchEachModel(classified_data, names, 1,
                            [files |-> [order |-> <<>>, items |-> disk.service_lines_by_id],
                             data |-> EmptyDict])
            IN /\ disk' = [disk EXCEPT !.service_lines_by_id = done.files.items]
               /\ service_lines_data' = done.data
               /\ pipe_pc' = "step6"
    /\ UNCHANGED <<classified_data, force, baskets_data_map, first_run, PipeOthers>>

\* the loop of step 6 from the i-th entry of service_lines_data: the baskets
\* of a model id are loaded when cached and force is off, else created and
\* written; the run returns None at the first creation that fails
\* (lines 265-286)
RECURSIVE BasketsForEach(_, _, _, _)
BasketsForEach(lines, is_forced, i, acc) ==
    IF i > Len(lines.order) THEN acc
    ELSE LET model_id == lines.order[i]
         IN IF model_id \in DOMAIN acc.files /\ ~is_forced
            THEN BasketsForEach(lines, is_forced, i + 1,
                     [acc EXCEPT !.map = DictSet(acc.map, model_id, acc.files[model_id])])
            ELSE LET baskets_data == CreateServiceBaskets(lines.items[model_id])
                 IN IF ~baskets_data.ok THEN [acc EXCEPT !.ok = FALSE]
                    ELSE BasketsForEach(lines, is_forced, i + 1,
                             [ok |-> TRUE,
                              files |-> [k \in DOMAIN acc.files \cup {model_id} |->
                                            IF k = model_id THEN baskets_data ELSE acc.files[k]],
                              map |-> DictSet(acc.map, model_id, baskets_data)])

\* STEP 6 (lines 265-286)
Step6CreateBaskets ==
    /\ pipe_pc = "step6"
    /\ LET done == BasketsForEach(service_lines_data, force, 1,
                       [ok |-> TRUE, files |-> disk.baskets_output, map |-> EmptyDict])
       IN /\ disk' = [disk EXCEPT !.baskets_output = done.files]
          /\ baskets_data_map' = done.map
          /\ pipe_pc' = IF done.ok THEN "step7" ELSE "failed"
    /\ UNCHANGED <<classified_data, force, service_lines_data, first_run, PipeOthers>>

\* STEP 7 (lines 293-313): a translation that fails falls back on the English
\* baskets, so every model id gets its file
Step7Translate ==
    /\ pipe_pc = "step7"
    /\ disk' = [disk EXCEPT !.hebrew_output = @ \cup SeqToSet(baskets_data_map.order)]
    /\ pipe_pc' = "step8"
    /\ UNCHANGED <<classified_data, force, service_lines_data, baskets_data_map, first_run,
                   PipeOthers>>

\* STEP 8 and the return of the outputs (lines 320-366): a failed export is
\* caught and reported, the run still succeeds
Step8Export ==
    /\ pipe_pc = "step8"
    /\ pipe_pc' = "succeeded"
    /\ UNCHANGED <<classified_data, disk, force, service_lines_data, baskets_data_map,
                   first_run, PipeOthers>>

\* the pipeline is run again for the same VIN, without force, over the files
\* the successful first run left on disk
RunAgain ==
    /\ pipe_pc = "succeeded"
    /\ first_run = <<>>
    /\ first_run' = <<[model_ids |-> service_lines_data.order, baskets |-> baskets_data_map]>>
    /\ force' = FALSE
    /\ pipe_pc' = "step2"
    /\ service_lines_data' = EmptyDict
    /\ baskets_data_map' = EmptyDict
    /\ UNCHANGED <<classified_data, disk, PipeOthers>>

NextPipe ==
    \/ Step2ExtractPdfs \/ Step3Classify \/ Step4ExtractPet \/ Step5MatchParts
    \/ Step6CreateBaskets \/ Step7Translate \/ Step8Export \/ RunAgain

SpecPipe == InitPipe /\ [][NextPipe]_vars

\* C29: a run without force over the cached outputs of a successful run
\* succeeds, and processes the same model ids and the same service baskets
C29_CachedRunMatchesFreshRun ==
    (first_run # <<>> /\ pipe_pc \in {"succeeded", "failed"}) =>
        /\ pipe_pc = "succeeded"
        /\ service_lines_data.order = first_run[1].model_ids
        /\ baskets_data_map = first_run[1].baskets

----------------------------------------------------------------------------
(* Specification SpecWeb: the VINProcessing row of one VIN, the requests   *)
(* to start_processing for it, and the process_vin_task invocations they   *)
(* queue. A task works on the object it loaded, and every save() writes    *)
(* all fields of that object to the row.                                   *)

\* process_vin_task invocations queued for the VIN
MaxTasks == 2

\* the values progress is given before the result is saved (tasks.py lines
\* 33, 48, 64, 80, 96, 111)
ProgressSteps == <<0, 16, 33, 50, 66, 83>>

\* the row get_or_create creates (views.py lines 24-27, models.py lines 17-21)
NewRow == [status |-> "PENDING", progress |-> 0, result_json |-> FALSE, error_message |-> FALSE]

InitWeb ==
    /\ NoGrid
    /\ NoBand
    /\ NoCols
    /\ NoText
    /\ NoPix
    /\ NoFiles /\ NoScan /\ NoTrim /\ NoPipe
    /\ vin_row = <<>>
    /\ tasks = <<>>

WebOthers == <<gridVars, bandVars, colVars, textVars, pixVars, fileVars, scanVars, trimVars, pipeVars>>

\* start_processing(request) for the VIN (views.py lines 14-36): the row is
\* fetched or created; a row that exists and is COMPLETED redirects to the
\* results, anything else queues a task
StartProcessing ==
    /\ Len(tasks) < MaxTasks
    /\ LET created == vin_row = <<>>
           vin_obj == IF created THEN NewRow ELSE vin_row[1]
       IN /\ vin_row' = <<vin_obj>>
          /\ IF ~created /\ vin_obj.status = "COMPLETED"
             THEN UNCHANGED tasks
             ELSE tasks' = Append(tasks, [at |-> "queued", step |-> 0, vin_obj |-> NewRow])
    /\ UNCHANGED WebOthers

\* a worker starts the task: vin_obj = VINProcessing.objects.get(id=vin_id)
\* (tasks.py line 26)
TaskGet ==
  \E t \in DOMAIN tasks :
    /\ tasks[t].at = "queued"
    /\ tasks' = [tasks EXCEPT ![t] = [at |-> "loaded", step |-> 0, vin_obj |-> vin_row[1]]]
    /\ UNCHANGED <<vin_row, WebOthers>>

\* status = 'PROCESSING', progress = 0, save() (lines 31-34)
TaskBegin ==
  \E t \in DOMAIN tasks :
    /\ tasks[t].at = "loaded"
    /\ LET vin_obj == [tasks[t].vin_obj EXCEPT !.status = "PROCESSING", !.progress = 0]
       IN /\ tasks' = [tasks EXCEPT ![t] = [at |-> "running", step |-> 1, vin_obj |-> vin_obj]]
          /\ vin_row' = <<vin_obj>>
    /\ UNCHANGED WebOthers

\* a step of the pipeline ends: progress = 16, 33, 50, 66 or 83, save()
\* (lines 48-49, 64-65, 80-81, 96-97, 111-112)
TaskProgress ==
  \E t \in DOMAIN tasks :
    /\ tasks[t].at = "running"
    /\ tasks[t].step < Len(ProgressSteps)
    /\ LET vin_obj == [tasks[t].vin_obj EXCEPT !.progress = ProgressSteps[tasks[t].step + 1]]
       IN /\ tasks' = [tasks EXCEPT ![t] = [at |-> "running", step |-> tasks[t].step + 1,
                                             vin_obj |-> vin_obj]]
          /\ vin_row' = <<vin_obj>>
    /\ UNCHANGED WebOthers

\* the result is saved: result_json, status = 'COMPLETED', progress = 100,
\* save() (lines 127-131)
TaskComplete ==
  \E t \in DOMAIN tasks :
    /\ tasks[t].at = "running"
    /\ tasks[t].step = Len(ProgressSteps)
    /\ LET vin_obj == [tasks[t].vin_obj EXCEPT !.result_json = TRUE, !.status = "COMPLETED",
                                               !.progress = 100]
       IN /\ tasks' = [tasks EXCEPT ![t] = [at |-> "returned", step |-> tasks[t].step, vin_obj |-> vin_obj]]
          /\ vin_row' = <<vin_obj>>
    /\ UNCHANGED WebOthers

\* a step raises: status = 'FAILED', error_message, save(), raise
\* (lines 135-139)
TaskFail ==
  \E t \in DOMAIN tasks :
    /\ tasks[t].at = "running"
    /\ LET vin_obj == [tasks[t].vin_obj EXCEPT !.status = "FAILED", !.error_message = TRUE]
       IN /\ tasks' = [tasks EXCEPT ![t] = [at |-> "raised", step |-> tasks[t].step, vin_obj |-> vin_obj]]
          /\ vin_row' = <<vin_obj>>
    /\ UNCHANGED WebOthers

NextWeb ==
    StartProcessing \/ TaskGet \/ TaskBegin \/ TaskProgress \/ TaskComplete \/ TaskFail

SpecWeb == InitWeb /\ [][NextWeb]_vars

\* the row is COMPLETED with progress 100 and a stored result
IsCompleted(row) ==
    /\ row # <<>>
    /\ row[1].status = "COMPLETED"
    /\ row[1].progress = 100
    /\ row[1].result_json

\* C30: once the record of a VIN is COMPLETED with progress 100 and a stored
\* result, no interleaving of start_processing requests and task runs makes
\* its status leave COMPLETED or its progress decrease
C30_CompletedIsStable ==
    [][IsCompleted(vin_row) =>
          /\ vin_row' # <<>>
          /\ vin_row'[1].status = "COMPLETED"
          /\ vin_row'[1].progress >= vin_row[1].progress]_vars

====
